---------------------------- MODULE Spec2Model ----------------------------
(***************************************************************************)
(* PulseTrack wallet signal tracker: the real-time ingestion pipeline.     *)
(*                                                                         *)
(*   WebSocketBackend   (services/websocket-backend.js)  credential pool,  *)
(*                      connection lifecycle, subscriptions                *)
(*   TokenDataService   (services/token-data-service.js) metadata cache    *)
(*   WalletTracker      (wallet-tracker.js)              tracked wallets,  *)
(*                      bounded transaction history                        *)
(*   TransactionFilter  (filters/transaction-filter.js)  shouldInclude     *)
(*                                                                         *)
(* Times are Date.now() milliseconds.  JavaScript runs one task at a time: *)
(* a handler is one action, an async function is cut at its awaits.        *)
(***************************************************************************)
EXTENDS Integers, Sequences, FiniteSets

VARIABLES
    now,                 \* Date.now()
    apiKeys,             \* options.apiKeys.length (keys are used by index)
    lastApiKeyUsage,     \* Map index -> time, read as get(i) || 0
    apiKeyFailures,      \* Map index -> count, read as get(i) || 0
    currentApiKeyIndex,
    resetTimers,         \* pending setTimeout callbacks of markApiKeyFailed, oldest first
    transactions,        \* WalletTracker.transactions, index 0 first
    maxTransactions,     \* WalletTracker.options.maxTransactions
    inserted,            \* history: what addTransaction received since the last clear, in order
    capacityChanged,     \* history: updateConfig changed maxTransactions since the last clear
    cache,               \* TokenDataService.cache: mint -> {data, timestamp}
    priceCache,          \* TokenDataService.priceCache: mint -> {price, timestamp}
    logoCache,           \* TokenDataService.logoCache: mint -> {logoURI, timestamp}
    pendingRequests,     \* TokenDataService.pendingRequests: mint -> promise of a fetchTokenData run
    fetches,             \* the fetchTokenData runs: where each stands, what it resolved to
    calls,               \* the getTokenData calls: where each stands, what it returned
    websocket,           \* WebSocketBackend.websocket: 0 for null, else the socket
    sockets,             \* the WebSocket objects created: readyState, and which call made them
    isConnected,
    isConnecting,
    reconnectCount,
    subscriptions,       \* Set, in insertion order
    pendingSubscriptions,\* Set, in insertion order
    trackedWallets,      \* WalletTracker.trackedWallets
    trackerIsConnected,  \* WalletTracker.isConnected
    heartbeatTimer,      \* armed or null
    keyRotationTimer,    \* armed or null
    reconnectTimers,     \* the armed setTimeout callbacks of scheduleReconnect, in arming order
    reconnectTimer,      \* this.reconnectTimer refers to an armed timer
    reconnectSleeps,     \* number of reconnect() calls in their one second wait
    waiters,             \* connect() calls awaiting 'connected' / 'error', in listener order
    microtasks,          \* continuations ready to run, first in first out
    reconnectAttempts,   \* options.reconnectAttempts
    selected,            \* history: what getNextApiKey returned, and when, call by call
    exhausted,           \* history: 'maxReconnectAttemptsReached' was emitted since the owner's last connect()
    retries,             \* history: connect() calls of the reconnect timer that got past the early return
                         \*          since the last open event
    idle,                \* history: disconnect() was called and the owner has not called connect() since
    filterOptions,       \* TransactionFilter.options
    blacklistAddresses,  \* TransactionFilter.blacklistAddresses
    whitelistPrograms,   \* TransactionFilter.whitelistPrograms
    transaction,         \* the transaction handed to shouldInclude
    included,            \* whether shouldInclude was called for it, and what it returned
    emitted,             \* the events WalletTracker emitted to its consumer, in order
    handling,            \* the handleTransaction runs that await a getTokenData call, by call
    received,            \* number of handleTransaction calls so far
    opened,              \* history: an open event was handled
    previous,            \* history: the latest shouldInclude call, which a further call finds as
                         \*          the previous one: its result, the clock reading, the lists, and
                         \*          whether it repeated the call before it (same clock reading and lists)
    batch,               \* the getBatchTokenData call: its argument, the Map it builds, and the
                         \*          fetchTokenData runs it awaits
    lastCall             \* history: wallet -> the last of subscribeToWallet / unsubscribeFromWallet the
                         \*          owner's calls reached for it before the first open event

keyVars == <<apiKeys, lastApiKeyUsage, apiKeyFailures, currentApiKeyIndex, resetTimers>>

histVars == <<transactions, maxTransactions, inserted, capacityChanged>>

cacheVars == <<cache, priceCache, logoCache, pendingRequests, fetches, calls>>

connVars == <<websocket, sockets, isConnected, isConnecting, reconnectCount, subscriptions,
              pendingSubscriptions, trackedWallets, trackerIsConnected, heartbeatTimer,
              keyRotationTimer, reconnectTimers, reconnectTimer, reconnectSleeps, waiters,
              microtasks>>

optVars == <<reconnectAttempts>>

batchVars == <<batch>>

obsVars == <<selected, exhausted, retries, idle>>

subVars == <<opened, lastCall, previous>>

trackVars == <<emitted, handling, received>>

filterVars == <<filterOptions, blacklistAddresses, whitelistPrograms, transaction, included>>

vars == <<now, keyVars, histVars, cacheVars, connVars, optVars, batchVars, trackVars, filterVars, subVars, obsVars>>

---------------------------------------------------------------------------
(* Bounds of the model *)

StartTime == 1000000
TickMs == 30000
MaxTicks == 1
MaxKeys == 2
MaxResetTimers == 8
MaxCapacity == 3
MaxTx == 5
MaxCalls == 2
MaxFetches == 2
CacheTickMs == 150000
MaxCacheTicks == 3
MaxSockets == 2
MaxMicrotasks == 2
MaxReconnectTimers == 2
ReconnectAttempts == 1

(* Constants of the program *)

FailureThreshold == 3
FailureCooldown == 60000
FailureResetDelay == 600000
CacheTimeout == 300000
PriceTimeout == 60000
LogoTimeout == 3600000
MaxRetries == 3
MinAddressLength == 32
MaxAddressLength == 44

KeyIndex == 0 .. (MaxKeys - 1)

WindowEnd == StartTime + MaxTicks * TickMs

---------------------------------------------------------------------------
(* WebSocketBackend: API key rotation *)

\* the skip condition of the selection loop
SkipKey(i) ==
    apiKeyFailures[i] > FailureThreshold /\ (now - lastApiKeyUsage[i]) < FailureCooldown

\* the selection loop from index i on, with the running bestKeyIndex / oldestUsage
RECURSIVE ScanKeys(_, _, _)
ScanKeys(i, bestKeyIndex, oldestUsage) ==
    IF i >= apiKeys THEN bestKeyIndex
    ELSE IF SkipKey(i) THEN ScanKeys(i + 1, bestKeyIndex, oldestUsage)
    ELSE IF lastApiKeyUsage[i] < oldestUsage THEN ScanKeys(i + 1, i, lastApiKeyUsage[i])
    ELSE ScanKeys(i + 1, bestKeyIndex, oldestUsage)

\* the index getNextApiKey settles on when the pool is not empty
BestKeyIndex == ScanKeys(0, 0, now)

\* getNextApiKey(): null on an empty pool, else select and stamp
GetNextApiKey ==
    /\ IF apiKeys = 0
       THEN UNCHANGED <<currentApiKeyIndex, lastApiKeyUsage>>
       ELSE /\ currentApiKeyIndex' = BestKeyIndex
            /\ lastApiKeyUsage' = [lastApiKeyUsage EXCEPT ![BestKeyIndex] = now]
    /\ UNCHANGED <<now, apiKeys, apiKeyFailures, resetTimers, histVars, cacheVars, connVars, optVars, batchVars, trackVars, filterVars, subVars>>

ResetFailures_Decrement(keyIndex) ==
    [apiKeyFailures EXCEPT ![keyIndex] = IF @ > 0 THEN @ - 1 ELSE 0]

\* the map after the reset callback of markApiKeyFailed ran for keyIndex
ResetFailures(keyIndex) == [apiKeyFailures EXCEPT ![keyIndex] = 0]

\* the map after markApiKeyFailed(keyIndex) counted one more failure
CountFailure(keyIndex) == [apiKeyFailures EXCEPT ![keyIndex] = @ + 1]

\* markApiKeyFailed(keyIndex); every caller passes currentApiKeyIndex
MarkApiKeyFailed ==
    /\ Len(resetTimers) < MaxResetTimers
    /\ now <= WindowEnd
    /\ apiKeyFailures' = CountFailure(currentApiKeyIndex)
    /\ resetTimers' = Append(resetTimers,
                             [key |-> currentApiKeyIndex, due |-> now + FailureResetDelay])
    /\ UNCHANGED <<now, apiKeys, lastApiKeyUsage, currentApiKeyIndex, optVars, batchVars, trackVars, filterVars, subVars, histVars, cacheVars, obsVars, connVars>>

\* the setTimeout callback of markApiKeyFailed
FailureResetTimeout ==
    /\ resetTimers # << >>
    /\ Head(resetTimers).due <= now
    /\ apiKeyFailures' = ResetFailures(Head(resetTimers).key)
    /\ resetTimers' = Tail(resetTimers)
    /\ UNCHANGED <<now, apiKeys, lastApiKeyUsage, currentApiKeyIndex, optVars, batchVars, trackVars, filterVars, subVars, histVars, cacheVars, obsVars, connVars>>

\* updateApiKeys(newApiKeys)
UpdateApiKeys(n) ==
    /\ apiKeys' = n
    /\ lastApiKeyUsage' = [i \in KeyIndex |-> 0]
    /\ apiKeyFailures' = [i \in KeyIndex |-> 0]
    /\ currentApiKeyIndex' = 0
    /\ UNCHANGED <<now, resetTimers, optVars, batchVars, trackVars, filterVars, subVars, histVars, cacheVars, obsVars, connVars>>

---------------------------------------------------------------------------
(* WalletTracker: the bounded transaction history *)

TxIds == 1 .. MaxTx

Capacities == 1 .. MaxCapacity

\* Array.prototype.unshift
Unshift(list, item) == <<item>> \o list

Slice_FromEnd(list, end) ==
    IF Len(list) <= end THEN list ELSE SubSeq(list, Len(list) - end + 1, Len(list))

\* Array.prototype.slice(0, end), end >= 0
Slice(list, end) == IF Len(list) <= end THEN list ELSE SubSeq(list, 1, end)

\* addTransaction(transaction)
AddTransaction(tx) ==
    /\ transactions' =
          IF Len(Unshift(transactions, tx)) > maxTransactions
          THEN Slice(Unshift(transactions, tx), maxTransactions)
          ELSE Unshift(transactions, tx)
    /\ inserted' = Append(inserted, tx)
    /\ UNCHANGED <<maxTransactions, capacityChanged>>

\* clearTransactions()
ClearTransactions ==
    /\ transactions' = << >>
    /\ inserted' = << >>
    /\ capacityChanged' = FALSE
    /\ UNCHANGED maxTransactions

\* updateConfig({maxTransactions: n}): the options are merged, nothing else is touched
UpdateConfigMaxTransactions(n) ==
    /\ maxTransactions' = n
    /\ capacityChanged' = (capacityChanged \/ n # maxTransactions)
    /\ UNCHANGED <<transactions, inserted>>

---------------------------------------------------------------------------
(* TokenDataService: the metadata cache with request de-duplication *)

Mints == {"mintA", "mintB"}

\* a falsy tokenMint
NoMint == ""

CallIds == 1 .. MaxCalls

FetchIds == 1 .. MaxFetches

\* rawData.price of an upstream answer
Prices == {1}

\* rawData.logo_uri of an upstream answer
Logos == {"null", "logo"}

\* JavaScript null as a result
Null == [null |-> TRUE]

\* Map.get(mint) === undefined
NoEntry == [has |-> FALSE, timestamp |-> 0]

NoFetch == [mint |-> NoMint, attempt |-> 0, phase |-> "none", data |-> Null]

NoCall == [mint |-> NoMint, state |-> "none", fetch |-> 0, owner |-> FALSE, result |-> Null]

\* Map.get(mint) === undefined in a result Map
NoResult == [has |-> FALSE, data |-> Null]

\* no getBatchTokenData call was made
NoBatch == [state |-> "none", id |-> 0, tokenMints |-> << >>,
            results |-> [m \in Mints |-> NoResult], runs |-> << >>]

\* processTokenData(rawData): the fields the cache tiers look at
ProcessTokenData(rawData) ==
    [address |-> rawData.address,
     logoURI |-> rawData.logo_uri,
     priceUsd |-> rawData.price,
     lastUpdated |-> now]

\* the expiry test of the three tiers and of the sweep
Expired(entry, ttl) == now - entry.timestamp > ttl

\* getCachedToken(tokenMint) returns cached.data
HasCachedToken(tokenMint) ==
    cache[tokenMint].has /\ ~Expired(cache[tokenMint], CacheTimeout)

\* the main tier after getCachedToken(tokenMint): an expired entry is deleted
GetCachedToken(tokenMint) ==
    IF cache[tokenMint].has /\ Expired(cache[tokenMint], CacheTimeout)
    THEN [cache EXCEPT ![tokenMint] = NoEntry]
    ELSE cache

HasPending_Never(tokenMint) == FALSE

\* this.pendingRequests.has(tokenMint)
HasPending(tokenMint) == pendingRequests[tokenMint] # 0

\* cacheTokenData(tokenMint, data), data not null
CacheTokenData(tokenMint, data) ==
    /\ cache' = [cache EXCEPT ![tokenMint] = [has |-> TRUE, timestamp |-> now, data |-> data]]
    /\ priceCache' = [priceCache EXCEPT
                         ![tokenMint] = [has |-> TRUE, timestamp |-> now, price |-> data.priceUsd]]
    /\ logoCache' = IF data.logoURI # "null"
                    THEN [logoCache EXCEPT
                             ![tokenMint] = [has |-> TRUE, timestamp |-> now, logoURI |-> data.logoURI]]
                    ELSE logoCache

\* getTokenData(tokenMint) up to its return or its first await
GetTokenData(tokenMint) ==
    \E c \in CallIds :
       /\ calls[c].state = "none"
       /\ \A d \in 1 .. (c - 1) : calls[d].state # "none"
       /\ IF tokenMint = NoMint
          THEN /\ calls' = [calls EXCEPT ![c] = [NoCall EXCEPT !.state = "returned"]]
               /\ UNCHANGED <<cache, pendingRequests, fetches>>
          ELSE IF HasCachedToken(tokenMint)
          THEN /\ calls' = [calls EXCEPT ![c] =
                               [mint |-> tokenMint, state |-> "returned", fetch |-> 0,
                                owner |-> FALSE, result |-> cache[tokenMint].data]]
               /\ UNCHANGED <<cache, pendingRequests, fetches>>
          ELSE IF HasPending(tokenMint)
          THEN /\ calls' = [calls EXCEPT ![c] =
                               [mint |-> tokenMint, state |-> "waiting",
                                fetch |-> pendingRequests[tokenMint],
                                owner |-> FALSE, result |-> Null]]
               /\ cache' = GetCachedToken(tokenMint)
               /\ UNCHANGED <<pendingRequests, fetches>>
          ELSE \E f \in FetchIds :
                  /\ fetches[f].phase = "none"
                  /\ \A g \in 1 .. (f - 1) : fetches[g].phase # "none"
                  /\ fetches' = [fetches EXCEPT ![f] =
                                    [mint |-> tokenMint, attempt |-> 0,
                                     phase |-> "fetching", data |-> Null]]
                  /\ pendingRequests' = [pendingRequests EXCEPT ![tokenMint] = f]
                  /\ calls' = [calls EXCEPT ![c] =
                                  [mint |-> tokenMint, state |-> "waiting", fetch |-> f,
                                   owner |-> TRUE, result |-> Null]]
                  /\ cache' = GetCachedToken(tokenMint)
       /\ UNCHANGED logoCache

\* the callers of run f after it settled: the owner's try/catch and the joiners' await
SettleCalls(f, ok, data) ==
    [c \in CallIds |->
        IF calls[c].state = "waiting" /\ calls[c].fetch = f
        THEN IF ok THEN [calls[c] EXCEPT !.state = "returned", !.result = data]
             ELSE IF calls[c].owner THEN [calls[c] EXCEPT !.state = "returned", !.result = Null]
             ELSE [calls[c] EXCEPT !.state = "threw"]
        ELSE calls[c]]

\* an attempt of fetchTokenData run f gets a well-formed answer: the run resolves,
\* the owner caches and returns, the joiners return
FetchSucceeded(f) ==
    /\ fetches[f].phase = "fetching"
    /\ \E price \in Prices, logo \in Logos :
          /\ fetches' = [fetches EXCEPT
                            ![f].phase = "ok",
                            ![f].data = ProcessTokenData([address |-> fetches[f].mint,
                                                          price |-> price, logo_uri |-> logo])]
          /\ CacheTokenData(fetches[f].mint, fetches'[f].data)
          /\ calls' = SettleCalls(f, TRUE, fetches'[f].data)
    /\ pendingRequests' = [pendingRequests EXCEPT ![fetches[f].mint] = 0]

FetchAttemptFailed_KeepsMarker(f) ==
    /\ fetches[f].phase = "fetching"
    /\ IF fetches[f].attempt < MaxRetries - 1
       THEN /\ fetches' = [fetches EXCEPT ![f].phase = "delay"]
            /\ UNCHANGED calls
       ELSE /\ fetches' = [fetches EXCEPT ![f].phase = "failed"]
            /\ calls' = SettleCalls(f, FALSE, Null)
    /\ UNCHANGED <<cache, priceCache, logoCache, pendingRequests>>

\* an attempt of run f fails (network error, non-2xx, malformed body): back off,
\* or after the last attempt throw lastError
FetchAttemptFailed(f) ==
    /\ fetches[f].phase = "fetching"
    /\ IF fetches[f].attempt < MaxRetries - 1
       THEN /\ fetches' = [fetches EXCEPT ![f].phase = "delay"]
            /\ UNCHANGED <<pendingRequests, calls>>
       ELSE /\ fetches' = [fetches EXCEPT ![f].phase = "failed"]
            /\ pendingRequests' = [pendingRequests EXCEPT ![fetches[f].mint] = 0]
            /\ calls' = SettleCalls(f, FALSE, Null)
    /\ UNCHANGED <<cache, priceCache, logoCache>>

\* the backoff delay of run f is over: next attempt
RetryDelayElapsed(f) ==
    /\ fetches[f].phase = "delay"
    /\ fetches' = [fetches EXCEPT ![f].phase = "fetching", ![f].attempt = @ + 1]
    /\ UNCHANGED <<cache, priceCache, logoCache, pendingRequests, calls>>

\* one tier after the sweep
Sweep(tier, ttl) ==
    [m \in Mints |-> IF tier[m].has /\ Expired(tier[m], ttl) THEN NoEntry ELSE tier[m]]

\* cleanupExpiredCache(), run by the interval of setupCacheCleanup
CleanupExpiredCache ==
    /\ cache' = Sweep(cache, CacheTimeout)
    /\ priceCache' = Sweep(priceCache, PriceTimeout)
    /\ logoCache' = Sweep(logoCache, LogoTimeout)
    /\ UNCHANGED <<pendingRequests, fetches, calls>>

\* clearCache()
ClearCache ==
    /\ cache' = [m \in Mints |-> NoEntry]
    /\ priceCache' = [m \in Mints |-> NoEntry]
    /\ logoCache' = [m \in Mints |-> NoEntry]
    /\ UNCHANGED <<pendingRequests, fetches, calls>>

\* time passes for the cache
CacheTick ==
    /\ now + CacheTickMs <= StartTime + MaxCacheTicks * CacheTickMs
    /\ now' = now + CacheTickMs
    /\ UNCHANGED <<keyVars, optVars, batchVars, trackVars, filterVars, subVars, histVars, cacheVars, obsVars, connVars>>

---------------------------------------------------------------------------
(* WalletTracker and WebSocketBackend: tracked wallets, subscriptions and the *)
(* connection.  A socket event or a timer callback runs only when no          *)
(* continuation is ready; a call of the owner may come between any two steps. *)

SocketIds == 1 .. MaxSockets

\* wallet addresses, all over the base58 alphabet, by their length
AddressLength == [walletA |-> 44, walletB |-> 32, short |-> 31]

Addresses == DOMAIN AddressLength

\* validateWalletAddress(address): base58, 32 to 44 characters
ValidateWalletAddress(address) ==
    AddressLength[address] >= MinAddressLength /\ AddressLength[address] <= MaxAddressLength

\* an unused WebSocket object
NoSocket == [readyState |-> "none", by |-> "none"]

\* a continuation in the microtask queue
Task(kind) ==
    [kind |-> kind, caller |-> "none", caught |-> FALSE, snapshot |-> << >>, idx |-> 0,
     socket |-> 0, sent |-> {}]

Range(seq) == {seq[i] : i \in 1 .. Len(seq)}

\* Set.prototype.add
SetAdd(set, item) == IF item \in Range(set) THEN set ELSE Append(set, item)

SetDelete_Keep(set, item) == set

\* Set.prototype.delete
SetDelete(set, item) == SelectSeq(set, LAMBDA x : x # item)

\* new Set([...this.subscriptions, ...this.pendingSubscriptions])
AllSubscriptions ==
    subscriptions \o SelectSeq(pendingSubscriptions, LAMBDA x : x \notin Range(subscriptions))

\* sendMessage sends: this.websocket is set and its readyState is OPEN
CanSend(ws, socks) == IF ws = 0 THEN FALSE ELSE socks[ws].readyState = "OPEN"

\* subscribeToWallet(walletAddress): the two sets after it, whether sendMessage
\* sent the subscription message, and the value it resolves with
SubscribeToWallet(walletAddress, connected) ==
    IF ~connected
    THEN [subscriptions |-> subscriptions,
          pendingSubscriptions |-> SetAdd(pendingSubscriptions, walletAddress),
          sent |-> FALSE, result |-> FALSE]
    ELSE [subscriptions |-> SetAdd(subscriptions, walletAddress),
          pendingSubscriptions |-> SetDelete(pendingSubscriptions, walletAddress),
          sent |-> CanSend(websocket, sockets), result |-> TRUE]

CloseSocket_Not(ws) == sockets

\* WebSocket.close() on socket ws: the close event comes later; closing a
\* socket that is still connecting fails it (error event, then close event)
CloseSocket(ws) ==
    IF ws = 0 THEN sockets
    ELSE [sockets EXCEPT ![ws].readyState =
             IF @ = "OPEN" THEN "CLOSING" ELSE IF @ = "CONNECTING" THEN "ABORTING" ELSE @]

\* markApiKeyFailed(this.currentApiKeyIndex) as part of a handler
MarkCurrentKeyFailed ==
    /\ Len(resetTimers) < MaxResetTimers
    /\ apiKeyFailures' = CountFailure(currentApiKeyIndex)
    /\ resetTimers' = Append(resetTimers,
                             [key |-> currentApiKeyIndex, due |-> now + FailureResetDelay])

\* the constructor defaults of reconnectDelay and maxReconnectDelay
ReconnectDelay == 1000
MaxReconnectDelay == 30000

RECURSIVE Pow2(_)
Pow2(n) == IF n = 0 THEN 1 ELSE 2 * Pow2(n - 1)

Min(a, b) == IF a < b THEN a ELSE b

\* the delay scheduleReconnect computes when it reads reconnectCount = count
Delay(count) == Min(ReconnectDelay * Pow2(count), MaxReconnectDelay)

\* the sequence without its i-th element
RemoveAt(seq, i) == SubSeq(seq, 1, i - 1) \o SubSeq(seq, i + 1, Len(seq))

\* scheduleReconnect() with the reconnectCount it reads
ScheduleReconnect(count) ==
    IF count >= reconnectAttempts
    THEN /\ exhausted' = TRUE
         /\ UNCHANGED <<reconnectTimers, reconnectTimer>>
    ELSE /\ Len(reconnectTimers) < MaxReconnectTimers
         /\ reconnectTimers' = Append(reconnectTimers,
                                      [due |-> now + Delay(count), delay |-> Delay(count)])
         /\ reconnectTimer' = TRUE
         /\ UNCHANGED exhausted

NoApiKey_Never == FALSE

\* getNextApiKey() returned null: connect() throws before its try block
NoApiKey == apiKeys = 0

\* connect() up to its await, called by start(), by the reconnect timer or by reconnect()
Connect(caller) ==
    IF isConnected \/ isConnecting
    THEN UNCHANGED <<currentApiKeyIndex, lastApiKeyUsage, isConnecting, websocket, sockets,
                     waiters, microtasks>>
    ELSE IF NoApiKey
    THEN /\ microtasks' = Append(microtasks, [Task("connectFailed") EXCEPT !.caller = caller])
         /\ UNCHANGED <<currentApiKeyIndex, lastApiKeyUsage, isConnecting, websocket, sockets,
                        waiters>>
    ELSE \E s \in DOMAIN sockets :
            /\ sockets[s].readyState = "none"
            /\ \A t \in 1 .. (s - 1) : sockets[t].readyState # "none"
            /\ currentApiKeyIndex' = BestKeyIndex
            /\ lastApiKeyUsage' = [lastApiKeyUsage EXCEPT ![BestKeyIndex] = now]
            /\ isConnecting' = TRUE
            /\ websocket' = s
            /\ sockets' = [sockets EXCEPT ![s] = [readyState |-> "CONNECTING", by |-> caller]]
            /\ waiters' = Append(waiters, [caller |-> caller, timeout |-> TRUE])
            /\ UNCHANGED microtasks

AddWallet_Again(walletAddress) ==
    /\ IF ValidateWalletAddress(walletAddress)
       THEN /\ trackedWallets' = trackedWallets \cup {walletAddress}
            /\ subscriptions' = SubscribeToWallet(walletAddress, isConnected).subscriptions
            /\ pendingSubscriptions' =
                  SubscribeToWallet(walletAddress, isConnected).pendingSubscriptions
       ELSE UNCHANGED <<trackedWallets, subscriptions, pendingSubscriptions>>
    /\ UNCHANGED <<now, keyVars, optVars, batchVars, trackVars, filterVars, histVars, cacheVars, obsVars, websocket, sockets, isConnected,
                   isConnecting, reconnectCount, trackerIsConnected, heartbeatTimer,
                   keyRotationTimer, reconnectTimers, reconnectTimer, reconnectSleeps, waiters,
                   microtasks>>

\* WalletTracker.addWallet(walletAddress)
AddWallet(walletAddress) ==
    /\ IF ValidateWalletAddress(walletAddress) /\ walletAddress \notin trackedWallets
       THEN /\ trackedWallets' = trackedWallets \cup {walletAddress}
            /\ subscriptions' = SubscribeToWallet(walletAddress, isConnected).subscriptions
            /\ pendingSubscriptions' =
                  SubscribeToWallet(walletAddress, isConnected).pendingSubscriptions
       ELSE UNCHANGED <<trackedWallets, subscriptions, pendingSubscriptions>>
    /\ UNCHANGED <<now, keyVars, optVars, batchVars, trackVars, filterVars, histVars, cacheVars, obsVars, websocket, sockets, isConnected,
                   isConnecting, reconnectCount, trackerIsConnected, heartbeatTimer,
                   keyRotationTimer, reconnectTimers, reconnectTimer, reconnectSleeps, waiters,
                   microtasks>>

\* WalletTracker.removeWallet(walletAddress), with unsubscribeFromWallet
RemoveWallet(walletAddress) ==
    /\ IF walletAddress \in trackedWallets
       THEN /\ trackedWallets' = trackedWallets \ {walletAddress}
            /\ subscriptions' = SetDelete(subscriptions, walletAddress)
            /\ pendingSubscriptions' = SetDelete(pendingSubscriptions, walletAddress)
       ELSE UNCHANGED <<trackedWallets, subscriptions, pendingSubscriptions>>
    /\ UNCHANGED <<now, keyVars, optVars, batchVars, trackVars, filterVars, histVars, cacheVars, obsVars, websocket, sockets, isConnected,
                   isConnecting, reconnectCount, trackerIsConnected, heartbeatTimer,
                   keyRotationTimer, reconnectTimers, reconnectTimer, reconnectSleeps, waiters,
                   microtasks>>

\* WalletTracker.start()
Start ==
    /\ Len(microtasks) < MaxMicrotasks
    /\ Connect("start")
    /\ exhausted' = FALSE
    /\ idle' = FALSE
    /\ UNCHANGED <<now, apiKeys, apiKeyFailures, resetTimers, optVars, batchVars, trackVars, filterVars, subVars, histVars, cacheVars,
                   selected, retries, isConnected,
                   reconnectCount, subscriptions, pendingSubscriptions, trackedWallets,
                   trackerIsConnected, heartbeatTimer, keyRotationTimer, reconnectTimers,
                   reconnectTimer, reconnectSleeps>>

\* WalletTracker.stop() up to its await: WebSocketBackend.disconnect()
Stop ==
    /\ Len(microtasks) < MaxMicrotasks
    /\ reconnectTimers' = IF reconnectTimer
                          THEN RemoveAt(reconnectTimers, Len(reconnectTimers))
                          ELSE reconnectTimers
    /\ reconnectTimer' = FALSE
    /\ heartbeatTimer' = FALSE
    /\ keyRotationTimer' = FALSE
    /\ sockets' = CloseSocket(websocket)
    /\ websocket' = 0
    /\ isConnected' = FALSE
    /\ isConnecting' = FALSE
    /\ subscriptions' = << >>
    /\ pendingSubscriptions' = << >>
    /\ microtasks' = Append(microtasks, Task("stopped"))
    /\ idle' = TRUE
    /\ UNCHANGED <<now, keyVars, optVars, batchVars, trackVars, filterVars, subVars, histVars, cacheVars, selected, exhausted, retries,
                   reconnectCount, trackedWallets,
                   trackerIsConnected, reconnectSleeps, waiters>>

\* the rest of WalletTracker.stop()
StopClear ==
    /\ microtasks # << >>
    /\ Head(microtasks).kind = "stopped"
    /\ microtasks' = Tail(microtasks)
    /\ trackedWallets' = {}
    /\ UNCHANGED <<now, keyVars, optVars, batchVars, trackVars, filterVars, subVars, histVars, cacheVars, obsVars, websocket, sockets, isConnected,
                   isConnecting, reconnectCount, subscriptions, pendingSubscriptions,
                   trackerIsConnected, heartbeatTimer, keyRotationTimer, reconnectTimers,
                   reconnectTimer, reconnectSleeps, waiters>>

\* the catch tasks of the connect() calls that awaited when 'error' was emitted
CatchTasks ==
    [i \in 1 .. Len(waiters) |->
        [Task("connectFailed") EXCEPT !.caller = waiters[i].caller, !.caught = TRUE]]

\* handleOpen(): the open event of socket s
HandleOpen(s) ==
    /\ microtasks = << >>
    /\ sockets[s].readyState = "CONNECTING"
    /\ sockets' = [sockets EXCEPT ![s].readyState = "OPEN"]
    /\ isConnected' = TRUE
    /\ isConnecting' = FALSE
    /\ reconnectCount' = 0
    /\ waiters' = << >>
    /\ trackerIsConnected' = TRUE
    /\ heartbeatTimer' = TRUE
    /\ IF AllSubscriptions = << >>
       THEN UNCHANGED <<subscriptions, pendingSubscriptions, microtasks>>
       ELSE /\ subscriptions' = SubscribeToWallet(AllSubscriptions[1], TRUE).subscriptions
            /\ pendingSubscriptions' =
                  SubscribeToWallet(AllSubscriptions[1], TRUE).pendingSubscriptions
            /\ microtasks' =
                  << [Task("resubscribe") EXCEPT
                         !.snapshot = AllSubscriptions, !.idx = 2, !.socket = s,
                         !.sent = IF websocket = s /\ CanSend(websocket, sockets')
                                  THEN {AllSubscriptions[1]} ELSE {}] >>
    /\ retries' = 0
    /\ UNCHANGED <<now, keyVars, optVars, batchVars, handling, received, filterVars, histVars, cacheVars, selected, exhausted, idle,
                   websocket, trackedWallets, keyRotationTimer, reconnectTimers, reconnectTimer,
                   reconnectSleeps>>

\* resubscribeAll() after an await: the next wallet of its snapshot, or the end
ResubscribeNext ==
    /\ microtasks # << >>
    /\ Head(microtasks).kind = "resubscribe"
    /\ IF Head(microtasks).idx > Len(Head(microtasks).snapshot)
       THEN /\ microtasks' = Tail(microtasks)
            /\ UNCHANGED <<subscriptions, pendingSubscriptions>>
       ELSE /\ subscriptions' =
                  SubscribeToWallet(Head(microtasks).snapshot[Head(microtasks).idx],
                                    isConnected).subscriptions
            /\ pendingSubscriptions' =
                  SubscribeToWallet(Head(microtasks).snapshot[Head(microtasks).idx],
                                    isConnected).pendingSubscriptions
            /\ microtasks' =
                  Append(Tail(microtasks),
                         [Head(microtasks) EXCEPT
                             !.idx = @ + 1,
                             !.sent = IF /\ isConnected
                                         /\ websocket = Head(microtasks).socket
                                         /\ CanSend(websocket, sockets)
                                      THEN @ \cup {Head(microtasks).snapshot[Head(microtasks).idx]}
                                      ELSE @])
    /\ UNCHANGED <<now, keyVars, optVars, batchVars, trackVars, filterVars, subVars, histVars, cacheVars, obsVars, websocket, sockets, isConnected,
                   isConnecting, reconnectCount, trackedWallets, trackerIsConnected,
                   heartbeatTimer, keyRotationTimer, reconnectTimers, reconnectTimer,
                   reconnectSleeps, waiters>>

\* handleError(): the error event of socket s
HandleError(s) ==
    /\ microtasks = << >>
    /\ sockets[s].readyState \in {"CONNECTING", "OPEN", "ABORTING"}
    /\ sockets' = [sockets EXCEPT ![s].readyState = "FAILED"]
    /\ MarkCurrentKeyFailed
    /\ waiters' = << >>
    /\ microtasks' = CatchTasks
    /\ UNCHANGED <<now, apiKeys, lastApiKeyUsage, currentApiKeyIndex, optVars, batchVars, trackVars, filterVars, subVars, histVars, cacheVars, obsVars,
                   websocket, isConnected, isConnecting, reconnectCount, subscriptions,
                   pendingSubscriptions, trackedWallets, trackerIsConnected, heartbeatTimer,
                   keyRotationTimer, reconnectTimers, reconnectTimer, reconnectSleeps>>

\* connect() rejected: its catch block if it got that far, then the caller's reaction
ConnectFailed ==
    /\ microtasks # << >>
    /\ Head(microtasks).kind = "connectFailed"
    /\ microtasks' = Tail(microtasks)
    /\ IF Head(microtasks).caught
       THEN isConnecting' = FALSE /\ MarkCurrentKeyFailed
       ELSE UNCHANGED <<isConnecting, apiKeyFailures, resetTimers>>
    /\ IF Head(microtasks).caller = "timer"
       THEN ScheduleReconnect(reconnectCount)
       ELSE UNCHANGED <<reconnectTimers, reconnectTimer, exhausted>>
    /\ UNCHANGED <<now, apiKeys, lastApiKeyUsage, currentApiKeyIndex, optVars, batchVars, trackVars, filterVars, subVars, histVars, cacheVars,
                   selected, retries, idle, websocket, sockets, isConnected, reconnectCount, subscriptions,
                   pendingSubscriptions, trackedWallets, trackerIsConnected, heartbeatTimer,
                   keyRotationTimer, reconnectSleeps, waiters>>

\* the close codes the close event of socket s can carry
CloseCodes(s) ==
    IF sockets[s].readyState \in {"OPEN", "CLOSING"} THEN {1000, 1006}
    ELSE IF sockets[s].readyState = "FAILED" THEN {1006}
    ELSE {}

\* handleClose(event): the close event of socket s
HandleClose(s, code) ==
    /\ microtasks = << >>
    /\ code \in CloseCodes(s)
    /\ sockets' = [sockets EXCEPT ![s].readyState = "CLOSED"]
    /\ isConnected' = FALSE
    /\ isConnecting' = FALSE
    /\ heartbeatTimer' = FALSE
    /\ trackerIsConnected' = FALSE
    /\ IF code # 1000
       THEN ScheduleReconnect(reconnectCount)
       ELSE UNCHANGED <<reconnectTimers, reconnectTimer, exhausted>>
    /\ UNCHANGED <<now, keyVars, optVars, batchVars, handling, received, filterVars, subVars, histVars, cacheVars, selected, retries, idle,
                   websocket, reconnectCount, subscriptions,
                   pendingSubscriptions, trackedWallets, keyRotationTimer, reconnectSleeps,
                   waiters, microtasks>>

\* the armed reconnect timer that runs next: the earliest due, the first armed among equals
NextReconnectTimer ==
    CHOOSE i \in 1 .. Len(reconnectTimers) :
        /\ \A j \in 1 .. Len(reconnectTimers) : reconnectTimers[i].due <= reconnectTimers[j].due
        /\ \A j \in 1 .. (i - 1) : reconnectTimers[j].due > reconnectTimers[i].due

\* the setTimeout callback of scheduleReconnect
ReconnectTimerFires ==
    /\ microtasks = << >>
    /\ reconnectTimers # << >>
    /\ reconnectTimers' = RemoveAt(reconnectTimers, NextReconnectTimer)
    /\ reconnectTimer' = (reconnectTimer /\ NextReconnectTimer # Len(reconnectTimers))
    /\ reconnectCount' = reconnectCount + 1
    /\ Connect("timer")
    /\ retries' = IF isConnected \/ isConnecting THEN retries ELSE retries + 1
    /\ UNCHANGED <<now, apiKeys, apiKeyFailures, resetTimers, optVars, batchVars, trackVars, filterVars, subVars, histVars, cacheVars,
                   selected, exhausted, idle, isConnected,
                   subscriptions, pendingSubscriptions, trackedWallets, trackerIsConnected,
                   heartbeatTimer, keyRotationTimer, reconnectSleeps>>

\* the interval of setupKeyRotation: rotateApiKey(), reconnect() up to its wait.
\* The interval is longer than the wait, so no earlier reconnect() is still waiting.
KeyRotationFires ==
    /\ microtasks = << >>
    /\ keyRotationTimer
    /\ reconnectSleeps = 0
    /\ IF isConnected
       THEN sockets' = CloseSocket(websocket) /\ reconnectSleeps' = reconnectSleeps + 1
       ELSE UNCHANGED <<sockets, reconnectSleeps>>
    /\ UNCHANGED <<now, keyVars, optVars, batchVars, trackVars, filterVars, subVars, histVars, cacheVars, obsVars, websocket, isConnected, isConnecting,
                   reconnectCount, subscriptions, pendingSubscriptions, trackedWallets,
                   trackerIsConnected, heartbeatTimer, keyRotationTimer, reconnectTimers,
                   reconnectTimer, waiters, microtasks>>

\* reconnect() after its wait: connect()
ReconnectSleepElapsed ==
    /\ microtasks = << >>
    /\ reconnectSleeps > 0
    /\ reconnectSleeps' = reconnectSleeps - 1
    /\ Connect("reconnect")
    /\ UNCHANGED <<now, apiKeys, apiKeyFailures, resetTimers, optVars, batchVars, trackVars, filterVars, subVars, histVars, cacheVars, obsVars, isConnected,
                   reconnectCount, subscriptions, pendingSubscriptions, trackedWallets,
                   trackerIsConnected, heartbeatTimer, keyRotationTimer, reconnectTimers,
                   reconnectTimer>>

\* the connection timeout of the oldest connect() that still awaits
ConnectTimeoutFires ==
    /\ microtasks = << >>
    /\ \E i \in 1 .. Len(waiters) :
          /\ waiters[i].timeout
          /\ \A j \in 1 .. (i - 1) : ~waiters[j].timeout
          /\ waiters' = [waiters EXCEPT ![i].timeout = FALSE]
    /\ sockets' = IF isConnecting THEN CloseSocket(websocket) ELSE sockets
    /\ UNCHANGED <<now, keyVars, optVars, batchVars, trackVars, filterVars, subVars, histVars, cacheVars, obsVars, websocket, isConnected, isConnecting,
                   reconnectCount, subscriptions, pendingSubscriptions, trackedWallets,
                   trackerIsConnected, heartbeatTimer, keyRotationTimer, reconnectTimers,
                   reconnectTimer, reconnectSleeps, microtasks>>

---------------------------------------------------------------------------
(* The clock.  A timer that is due runs before the clock moves on. *)

NoTimerDue == IF resetTimers = << >> THEN TRUE ELSE Head(resetTimers).due > now

Tick ==
    /\ NoTimerDue
    /\ now + TickMs <= WindowEnd
    /\ now' = now + TickMs
    /\ UNCHANGED <<keyVars, optVars, batchVars, trackVars, filterVars, subVars, histVars, cacheVars, obsVars, connVars>>

\* nothing happens until the next reset timer is due
SleepUntilTimer ==
    /\ resetTimers # << >>
    /\ Head(resetTimers).due > now
    /\ now' = Head(resetTimers).due
    /\ UNCHANGED <<keyVars, optVars, batchVars, trackVars, filterVars, subVars, histVars, cacheVars, obsVars, connVars>>

---------------------------------------------------------------------------
(* TransactionFilter (filters/transaction-filter.js).  Amounts are in units *)
(* of 10^-9: a uiChange of 0.001 is 1000000, like 0.001 SOL in lamports.    *)

MinAmount == 1000000
MaxAge == 86400000
MaxItems == 1

\* an option the caller leaves out (a flag, a number) or passes
AbsentFlag == [present |-> FALSE, value |-> FALSE]

AbsentNumber == [present |-> FALSE, value |-> 0]

Given(v) == [present |-> TRUE, value |-> v]

\* the constructor's options: { enableFiltering: options.enableFiltering !== false,
\* minAmount: options.minAmount || 0.001, maxAge: options.maxAge || 86400000, ...options },
\* where the spread puts every option that was passed back as it was passed
Options(enableFiltering, minAmount, maxAge) ==
    [enableFiltering |-> IF enableFiltering.present THEN enableFiltering.value ELSE TRUE,
     minAmount |-> IF minAmount.present THEN minAmount.value ELSE MinAmount,
     maxAge |-> IF maxAge.present THEN maxAge.value ELSE MaxAge]

\* the blacklist of the constructor: system, token and associated token program
SystemPrograms == {"SystemProgram", "TokenProgram", "AssociatedTokenProgram"}

\* the whitelist of the constructor
DexPrograms == {"SerumDex", "Jupiter", "Whirlpool"}

Abs(x) == IF x < 0 THEN 0 - x ELSE x

RECURSIVE SumAbs(_)
\* balanceChanges.reduce((total, change) => total + Math.abs(change.change), 0)
SumAbs(changes) ==
    IF changes = << >> THEN 0 ELSE Abs(Head(changes)) + SumAbs(Tail(changes))

\* passesAgeFilter: a timestamp of 0 stands for a missing one, both are falsy
PassesAgeFilter(tx) ==
    IF tx.timestamp = 0 THEN TRUE ELSE now - tx.timestamp <= filterOptions.maxAge

\* passesAmountFilter: solChange / 1e9 >= minAmount is compared in lamports
PassesAmountFilter(tx) ==
    IF Len(tx.tokenTransfers) > 0
    THEN \E i \in 1 .. Len(tx.tokenTransfers) :
            Abs(tx.tokenTransfers[i]) >= filterOptions.minAmount
    ELSE IF Len(tx.balanceChanges) > 0
    THEN SumAbs(tx.balanceChanges) >= filterOptions.minAmount
    ELSE TRUE

\* passesProgramFilter
PassesProgramFilter(tx) ==
    IF Len(tx.instructions) = 0 THEN TRUE
    ELSE \E i \in 1 .. Len(tx.instructions) : tx.instructions[i] \in whitelistPrograms

PassesAddressFilter_Always(tx) == TRUE

\* passesAddressFilter
PassesAddressFilter(tx) ==
    IF Len(tx.accounts) = 0 THEN TRUE
    ELSE Len(SelectSeq(tx.accounts, LAMBDA account : account \notin blacklistAddresses)) > 0

PassesTypeFilter_AnyStatus(tx) ==
    Len(tx.tokenTransfers) > 0 \/ Len(tx.balanceChanges) > 0

\* passesTypeFilter
PassesTypeFilter(tx) ==
    IF tx.status # "success" THEN FALSE
    ELSE Len(tx.tokenTransfers) > 0 \/ Len(tx.balanceChanges) > 0

ShouldInclude_Alternating(tx) == ~included.result

\* shouldInclude(transaction): the value it returns
ShouldInclude(tx) ==
    IF ~filterOptions.enableFiltering THEN TRUE
    ELSE IF ~PassesAgeFilter(tx) THEN FALSE
    ELSE IF ~PassesAmountFilter(tx) THEN FALSE
    ELSE IF ~PassesProgramFilter(tx) THEN FALSE
    ELSE IF ~PassesAddressFilter(tx) THEN FALSE
    ELSE IF ~PassesTypeFilter(tx) THEN FALSE
    ELSE TRUE

\* a call of shouldInclude on the transaction at hand
CallShouldInclude ==
    /\ included' = [called |-> TRUE, result |-> ShouldInclude(transaction)]
    /\ UNCHANGED <<now, keyVars, histVars, cacheVars, connVars, optVars, batchVars, trackVars, opened, lastCall,
                   obsVars, filterOptions, blacklistAddresses, whitelistPrograms, transaction>>

\* addToBlacklist(address)
AddToBlacklist(address) ==
    /\ blacklistAddresses' = blacklistAddresses \cup {address}
    /\ UNCHANGED <<now, keyVars, histVars, cacheVars, connVars, optVars, batchVars, trackVars, subVars, obsVars,
                   filterOptions, whitelistPrograms, transaction, included>>

\* removeFromBlacklist(address)
RemoveFromBlacklist(address) ==
    /\ blacklistAddresses' = blacklistAddresses \ {address}
    /\ UNCHANGED <<now, keyVars, histVars, cacheVars, connVars, optVars, batchVars, trackVars, subVars, obsVars,
                   filterOptions, whitelistPrograms, transaction, included>>

\* addToWhitelist(programId)
AddToWhitelist(programId) ==
    /\ whitelistPrograms' = whitelistPrograms \cup {programId}
    /\ UNCHANGED <<now, keyVars, histVars, cacheVars, connVars, optVars, batchVars, trackVars, subVars, obsVars,
                   filterOptions, blacklistAddresses, transaction, included>>

\* removeFromWhitelist(programId)
RemoveFromWhitelist(programId) ==
    /\ whitelistPrograms' = whitelistPrograms \ {programId}
    /\ UNCHANGED <<now, keyVars, histVars, cacheVars, connVars, optVars, batchVars, trackVars, subVars, obsVars,
                   filterOptions, blacklistAddresses, transaction, included>>

\* the transaction of a tracker that has received none
NoTransaction ==
    [status |-> "success", timestamp |-> 0, tokenTransfers |-> << >>,
     balanceChanges |-> << >>, instructions |-> << >>, accounts |-> << >>]

\* new TransactionFilter({enableFiltering: true}), as the WalletTracker constructs it
InitFilter ==
    /\ filterOptions = Options(Given(TRUE), AbsentNumber, AbsentNumber)
    /\ blacklistAddresses = SystemPrograms
    /\ whitelistPrograms = DexPrograms
    /\ transaction = NoTransaction
    /\ included = [called |-> FALSE, result |-> FALSE]

---------------------------------------------------------------------------
(* The credential pool on its own: its operations called in any order *)

InitBackendKeys ==
    /\ lastApiKeyUsage = [i \in KeyIndex |-> 0]
    /\ apiKeyFailures = [i \in KeyIndex |-> 0]
    /\ currentApiKeyIndex = 0
    /\ resetTimers = << >>

InitObservations ==
    /\ selected = << >>
    /\ exhausted = FALSE
    /\ retries = 0
    /\ idle = FALSE
    /\ opened = FALSE
    /\ lastCall = [a \in Addresses |-> "none"]
    /\ previous = [called |-> FALSE, result |-> FALSE, at |-> 0,
                   blacklistAddresses |-> {}, whitelistPrograms |-> {}, repeated |-> FALSE]

InitHistory ==
    /\ transactions = << >>
    /\ inserted = << >>
    /\ capacityChanged = FALSE

InitCache ==
    /\ cache = [m \in Mints |-> NoEntry]
    /\ priceCache = [m \in Mints |-> NoEntry]
    /\ logoCache = [m \in Mints |-> NoEntry]
    /\ pendingRequests = [m \in Mints |-> 0]
    /\ fetches = [f \in FetchIds |-> NoFetch]
    /\ calls = [c \in CallIds |-> NoCall]
    /\ batch = NoBatch

\* no transaction has arrived
NoRun == [active |-> FALSE]

InitTracking ==
    /\ emitted = << >>
    /\ handling = [c \in CallIds |-> NoRun]
    /\ received = 0

InitConnection ==
    /\ websocket = 0
    /\ isConnected = FALSE
    /\ isConnecting = FALSE
    /\ reconnectCount = 0
    /\ subscriptions = << >>
    /\ pendingSubscriptions = << >>
    /\ trackedWallets = {}
    /\ trackerIsConnected = FALSE
    /\ heartbeatTimer = FALSE
    /\ keyRotationTimer = TRUE
    /\ reconnectTimers = << >>
    /\ reconnectTimer = FALSE
    /\ reconnectSleeps = 0
    /\ waiters = << >>
    /\ microtasks = << >>

InitKeys ==
    /\ now = StartTime
    /\ InitConnection
    /\ sockets = [s \in SocketIds |-> NoSocket]
    /\ reconnectAttempts = ReconnectAttempts
    /\ InitObservations
    /\ InitTracking
    /\ InitFilter
    /\ InitCache
    /\ apiKeys \in 0 .. MaxKeys
    /\ InitBackendKeys
    /\ InitHistory
    /\ maxTransactions = MaxCapacity

NextKeys ==
    \/ GetNextApiKey /\ UNCHANGED obsVars
    \/ MarkApiKeyFailed
    \/ FailureResetTimeout
    \/ Tick
    \/ SleepUntilTimer

SpecKeys == InitKeys /\ [][NextKeys]_vars

---------------------------------------------------------------------------
(* The history on its own: distinct transactions arrive one by one *)

InitHist ==
    /\ now = StartTime
    /\ InitConnection
    /\ sockets = [s \in SocketIds |-> NoSocket]
    /\ reconnectAttempts = ReconnectAttempts
    /\ InitObservations
    /\ InitTracking
    /\ InitFilter
    /\ InitCache
    /\ apiKeys = 0
    /\ InitBackendKeys
    /\ InitHistory
    /\ maxTransactions \in Capacities

NextHist ==
    \/ /\ \E tx \in TxIds : (\A i \in 1 .. Len(inserted) : inserted[i] # tx) /\ AddTransaction(tx)
       /\ UNCHANGED <<now, keyVars, cacheVars, connVars, optVars, batchVars, trackVars, filterVars, subVars, obsVars>>
    \/ ClearTransactions /\ UNCHANGED <<now, keyVars, cacheVars, connVars, optVars, batchVars, trackVars, filterVars, subVars, obsVars>>
    \/ (\E n \in Capacities : UpdateConfigMaxTransactions(n)) /\ UNCHANGED <<now, keyVars, cacheVars, connVars, optVars, batchVars, trackVars, filterVars, subVars, obsVars>>

SpecHist == InitHist /\ [][NextHist]_vars

---------------------------------------------------------------------------
(* The metadata cache on its own: calls, upstream answers, sweeps, time *)

InitTokenData ==
    /\ now = StartTime
    /\ apiKeys = 0
    /\ InitBackendKeys
    /\ InitHistory
    /\ maxTransactions = MaxCapacity
    /\ InitCache
    /\ InitConnection
    /\ sockets = [s \in SocketIds |-> NoSocket]
    /\ reconnectAttempts = ReconnectAttempts
    /\ InitObservations
    /\ InitTracking
    /\ InitFilter

NextCache ==
    \/ (\E m \in Mints \cup {NoMint} : GetTokenData(m)) /\ UNCHANGED <<priceCache, now, keyVars, histVars, connVars, optVars, batchVars, trackVars, filterVars, subVars, obsVars>>
    \/ (\E f \in FetchIds : FetchSucceeded(f)) /\ UNCHANGED <<now, keyVars, histVars, connVars, optVars, batchVars, trackVars, filterVars, subVars, obsVars>>
    \/ (\E f \in FetchIds : FetchAttemptFailed(f)) /\ UNCHANGED <<now, keyVars, histVars, connVars, optVars, batchVars, trackVars, filterVars, subVars, obsVars>>
    \/ (\E f \in FetchIds : RetryDelayElapsed(f)) /\ UNCHANGED <<now, keyVars, histVars, connVars, optVars, batchVars, trackVars, filterVars, subVars, obsVars>>
    \/ CleanupExpiredCache /\ UNCHANGED <<now, keyVars, histVars, connVars, optVars, batchVars, trackVars, filterVars, subVars, obsVars>>
    \/ ClearCache /\ UNCHANGED <<now, keyVars, histVars, connVars, optVars, batchVars, trackVars, filterVars, subVars, obsVars>>
    \/ CacheTick

SpecCache == InitTokenData /\ [][NextCache]_vars

---------------------------------------------------------------------------
(* The tracker with its connection: owner calls, socket events, timers *)

Init ==
    /\ now = StartTime
    /\ apiKeys \in {0, MaxKeys}
    /\ InitBackendKeys
    /\ InitHistory
    /\ maxTransactions = MaxCapacity
    /\ InitCache
    /\ InitConnection
    /\ sockets = [s \in SocketIds |-> NoSocket]
    /\ reconnectAttempts = ReconnectAttempts
    /\ InitObservations
    /\ InitTracking
    /\ InitFilter

Next ==
    \/ (\E a \in Addresses : AddWallet(a)) /\ UNCHANGED subVars
    \/ (\E a \in Addresses : RemoveWallet(a)) /\ UNCHANGED subVars
    \/ Start
    \/ Stop
    \/ StopClear
    \/ (\E s \in DOMAIN sockets : HandleOpen(s)) /\ UNCHANGED <<subVars, emitted>>
    \/ ResubscribeNext
    \/ \E s \in DOMAIN sockets : HandleError(s)
    \/ ConnectFailed
    \/ (\E s \in DOMAIN sockets : \E code \in {1000, 1006} : HandleClose(s, code))
       /\ UNCHANGED emitted
    \/ ReconnectTimerFires
    \/ KeyRotationFires
    \/ ReconnectSleepElapsed
    \/ ConnectTimeoutFires

Spec == Init /\ [][Next]_vars

---------------------------------------------------------------------------
(* Properties of the subscriptions *)

\* the step in which a resubscribeAll() run ends: its loop finds no wallet left
ResubscribeAllFinishes ==
    /\ microtasks # << >>
    /\ Head(microtasks).kind = "resubscribe"
    /\ Head(microtasks).idx > Len(Head(microtasks).snapshot)
    /\ microtasks' = Tail(microtasks)

\* C1: with addWallet / removeWallet calls and socket events only (disconnect()
\* was never called, the rotation timer it clears is still armed), when the
\* resubscribeAll() run of a connection opened by reconnect() ends, the
\* subscriptions together with the pending subscriptions are the tracked wallets.
C1_ResubscriptionComplete ==
    [][ ( /\ ResubscribeAllFinishes
          /\ sockets[Head(microtasks).socket].by = "reconnect"
          /\ keyRotationTimer )
        => Range(subscriptions') \cup Range(pendingSubscriptions') = trackedWallets'
      ]_vars

\* C2: when the resubscribeAll() run started by an open event ends, a
\* subscription message was sent on the socket that opened for every wallet
\* that was subscribed or pending at the open event, no subscription is
\* pending, and every such wallet is in the subscriptions (unless the owner
\* has removed it or disconnected since).
C2_ResubscribeOnOpen ==
    [][ ResubscribeAllFinishes
        => /\ Head(microtasks).sent = Range(Head(microtasks).snapshot)
           /\ pendingSubscriptions' = << >>
           /\ isConnected' =>
                 (Range(Head(microtasks).snapshot) \cap trackedWallets')
                    \subseteq Range(subscriptions')
      ]_vars

---------------------------------------------------------------------------
(* Properties of the credential pool *)

Pool == 0 .. (apiKeys - 1)

\* a credential in cooldown: too many failures and used within the cooldown window
Cooldown(i) ==
    apiKeyFailures[i] > FailureThreshold /\ now - lastApiKeyUsage[i] < FailureCooldown

MinUsage == CHOOSE u \in {lastApiKeyUsage[i] : i \in Pool} :
                \A i \in Pool : u <= lastApiKeyUsage[i]

\* C7: a credential whose failure count is above the threshold is not the one
\* getNextApiKey selects while another credential of the pool is free of cooldown.
C7_FailedKeyNotSelected ==
    apiKeys > 0 =>
        ~ ( /\ apiKeyFailures[BestKeyIndex] > FailureThreshold
            /\ \E j \in Pool : j # BestKeyIndex /\ ~Cooldown(j) )

\* C8: at every clock value, a credential in cooldown is never the one
\* getNextApiKey returns if the pool holds a credential that is not in cooldown.
C8_CooldownInvariant ==
    apiKeys > 0 =>
        ~ ( Cooldown(BestKeyIndex) /\ \E j \in Pool : ~Cooldown(j) )

\* C9: when every credential of a non-empty pool is in cooldown, getNextApiKey
\* returns a credential with the smallest lastUsedAt of the pool and stamps it
\* with the current time.
C9_FallbackLeastRecentlyUsed ==
    (apiKeys > 0 /\ \A i \in Pool : Cooldown(i)) =>
        /\ lastApiKeyUsage[BestKeyIndex] = MinUsage
        /\ ENABLED (GetNextApiKey /\ lastApiKeyUsage'[BestKeyIndex] = now)

\* C10: markApiKeyFailed adds one to the credential's count and arms a timer;
\* the timer runs FailureResetDelay after its call and sets the count to 0
\* whatever was counted in between, after which the selection loop no longer
\* skips the credential.
C10_FailureReset ==
    [][ /\ Len(resetTimers') > Len(resetTimers) =>
              LET t == resetTimers'[Len(resetTimers')] IN
              /\ apiKeyFailures'[t.key] = apiKeyFailures[t.key] + 1
              /\ t.due = now + FailureResetDelay
              /\ \A i \in KeyIndex \ {t.key} : apiKeyFailures'[i] = apiKeyFailures[i]
        /\ Len(resetTimers') < Len(resetTimers) =>
              \E k \in KeyIndex :
                  /\ k = Head(resetTimers).key
                  /\ now = Head(resetTimers).due
                  /\ apiKeyFailures'[k] = 0
                  /\ ~SkipKey(k)'
      ]_vars

\* a reset has run for a credential while timers of its later failures are pending
C10_Witness ==
    \E i \in 1 .. Len(resetTimers) :
        /\ apiKeyFailures[resetTimers[i].key] = 0
        /\ now >= StartTime + FailureResetDelay
        /\ resetTimers[i].due > now

---------------------------------------------------------------------------
(* Properties of the metadata cache *)

\* the fetchTokenData runs for mint m that have not settled
InFlight(m) == {f \in FetchIds : fetches[f].mint = m /\ fetches[f].phase \in {"fetching", "delay"}}

\* C3: getTokenData calls for the same mint that find no unexpired entry while
\* no answer has arrived share one fetchTokenData run: at most one run per mint
\* is in flight, every waiting caller waits for exactly that run, and when the
\* run resolves every one of its callers returns the run's result.
C3_Deduplication ==
    /\ \A m \in Mints : Cardinality(InFlight(m)) <= 1
    /\ \A c \in CallIds :
          calls[c].state = "waiting" =>
              /\ InFlight(calls[c].mint) = {calls[c].fetch}
              /\ pendingRequests[calls[c].mint] = calls[c].fetch
    /\ \A c \in CallIds :
          (calls[c].state # "none" /\ calls[c].fetch # 0) =>
              /\ fetches[calls[c].fetch].mint = calls[c].mint
              /\ fetches[calls[c].fetch].phase = "ok" =>
                    (calls[c].state = "returned" /\ calls[c].result = fetches[calls[c].fetch].data)
              /\ fetches[calls[c].fetch].phase = "failed" =>
                    (calls[c].state \in {"returned", "threw"} /\ calls[c].result = Null)
    /\ \A f \in FetchIds :
          fetches[f].phase # "none" =>
              Cardinality({c \in CallIds : calls[c].fetch = f /\ calls[c].owner}) = 1

\* two calls for one mint were served by a single run, one of them joined it
C3_Witness ==
    \E c, d \in CallIds :
        /\ c # d
        /\ calls[c].mint \in Mints
        /\ calls[d].mint = calls[c].mint
        /\ calls[c].owner /\ ~calls[d].owner
        /\ calls[d].fetch = calls[c].fetch
        /\ calls[c].fetch # 0
        /\ fetches[calls[c].fetch].phase = "ok"
        /\ calls[c].state = "returned" /\ calls[d].state = "returned"
        /\ calls[d].result = calls[c].result
        /\ \A f \in FetchIds : f # calls[c].fetch => fetches[f].phase = "none"

\* C4: a getTokenData call that finds an entry cached at t0 returns the entry's
\* data unchanged if now - t0 < cacheTimeout, and treats the entry as absent
\* (entry dropped, nothing returned from it, a fetch awaited) if
\* now - t0 >= cacheTimeout, the boundary now - t0 = cacheTimeout included.
C4_TtlBoundary ==
    [][ \A c \in CallIds : \A m \in Mints :
          (calls[c].state = "none" /\ calls'[c].state # "none" /\ calls'[c].mint = m
             /\ cache[m].has) =>
              /\ now - cache[m].timestamp < CacheTimeout =>
                    /\ calls'[c].state = "returned"
                    /\ calls'[c].result = cache[m].data
                    /\ cache'[m] = cache[m]
              /\ now - cache[m].timestamp >= CacheTimeout =>
                    /\ calls'[c].state = "waiting"
                    /\ ~cache'[m].has
      ]_vars

---------------------------------------------------------------------------
(* Properties of the transaction history *)

\* C5: the history is never longer than the configured maxTransactions, also
\* after updateConfig lowered it.
C5_HistoryBound == Len(transactions) <= maxTransactions

\* C6: the history is the most recently inserted events, newest at index 0, in
\* insertion order; eviction takes the oldest only; with a capacity N that was
\* not changed, N+1 insertions leave exactly the newest N and the first is gone.
C6_EvictionOrder ==
    /\ Len(transactions) <= Len(inserted)
    /\ \A i \in 1 .. Len(transactions) : transactions[i] = inserted[Len(inserted) - i + 1]
    /\ inserted # << >> => transactions # << >>
    /\ ~capacityChanged =>
          /\ Len(inserted) <= maxTransactions => Len(transactions) = Len(inserted)
          /\ Len(inserted) > maxTransactions =>
                /\ Len(transactions) = maxTransactions
                /\ \A i \in 1 .. Len(transactions) : transactions[i] # inserted[1]

\* one more event than the capacity was inserted
C6_Witness ==
    /\ ~capacityChanged
    /\ Len(inserted) = maxTransactions + 1
    /\ Len(transactions) = maxTransactions

---------------------------------------------------------------------------
(* The rotation on its own: selections without failures, millisecond clock *)

MaxSelections == 4
MaxMillis == 3

\* one getNextApiKey() call, with what it returned written to the history
SelectApiKey ==
    /\ apiKeys > 0
    /\ Len(selected) < MaxSelections
    /\ GetNextApiKey
    /\ selected' = Append(selected, [key |-> BestKeyIndex, at |-> now,
                                     usage |-> lastApiKeyUsage[BestKeyIndex],
                                     oldest |-> MinUsage])
    /\ UNCHANGED <<exhausted, retries, idle>>

\* Date.now() moves on by one millisecond
Millisecond ==
    /\ now < StartTime + MaxMillis
    /\ now' = now + 1
    /\ UNCHANGED <<keyVars, histVars, cacheVars, connVars, optVars, batchVars, trackVars, filterVars, subVars, obsVars>>

InitRotate ==
    /\ now = StartTime
    /\ InitConnection
    /\ sockets = [s \in SocketIds |-> NoSocket]
    /\ reconnectAttempts = ReconnectAttempts
    /\ InitObservations
    /\ InitTracking
    /\ InitFilter
    /\ InitCache
    /\ apiKeys \in 1 .. MaxKeys
    /\ InitBackendKeys
    /\ InitHistory
    /\ maxTransactions = MaxCapacity

NextRotate ==
    \/ SelectApiKey
    \/ Millisecond

SpecRotate == InitRotate /\ [][NextRotate]_vars

\* the credentials returned by the apiKeys selections from the i-th on
SelectedFrom(i) == {selected[j].key : j \in i .. (i + apiKeys - 1)}

\* C11: without failures every selection returns a credential with the smallest
\* lastUsedAt, a pool of two is visited first, second, first, and any n
\* successive selections from a pool of n return n distinct credentials.
C11_RoundRobin ==
    /\ \A j \in 1 .. Len(selected) : selected[j].usage = selected[j].oldest
    /\ (apiKeys = 2 /\ Len(selected) >= 3)
          => <<selected[1].key, selected[2].key, selected[3].key>> = <<0, 1, 0>>
    /\ \A i \in 1 .. (Len(selected) - apiKeys + 1) :
          Cardinality(SelectedFrom(i)) = apiKeys

---------------------------------------------------------------------------
(* connect() on an empty pool *)

\* the armed timers of the backend
ArmedTimers ==
    <<heartbeatTimer, keyRotationTimer, reconnectTimers, reconnectTimer, reconnectSleeps,
      waiters, resetTimers>>

\* C12: connect() on an empty pool rejects to its caller (the rejection is its
\* only effect): no socket is created, no timer is armed, and isConnected,
\* isConnecting, both subscription sets and reconnectCount stay as they were.
C12_EmptyPoolFailsFast ==
    [][ (apiKeys = 0 /\ Start)
        => /\ microtasks' = Append(microtasks, [Task("connectFailed") EXCEPT !.caller = "start"])
           /\ sockets' = sockets /\ websocket' = websocket
           /\ ArmedTimers' = ArmedTimers
           /\ <<isConnected, isConnecting, subscriptions, pendingSubscriptions, reconnectCount>>'
                 = <<isConnected, isConnecting, subscriptions, pendingSubscriptions, reconnectCount>>
      ]_vars

C12_Witness ==
    /\ apiKeys = 0
    /\ microtasks # << >>
    /\ microtasks[Len(microtasks)].kind = "connectFailed"
    /\ ~microtasks[Len(microtasks)].caught
    /\ pendingSubscriptions # << >>

---------------------------------------------------------------------------
(* The connection on its own, with the clock: no wallets, several attempts.
   The window is shorter than the connection timeout (10 s), the heartbeat
   (30 s), the rotation interval (5 min) and the failure reset (10 min), so
   the reconnect timers are the only timers that come due in it; socket
   events take any time. *)

MaxAttemptSockets == 4
RetryAttempts == 4
ClockStep == 1000
MaxClockSteps == 3

\* the reconnect timer that runs next is due
ReconnectTimerDue ==
    /\ reconnectTimers # << >>
    /\ reconnectTimers[NextReconnectTimer].due <= now

\* the clock moves on; a timer that is due runs first
Elapse ==
    /\ ~ReconnectTimerDue
    /\ now + ClockStep <= StartTime + MaxClockSteps * ClockStep
    /\ now' = now + ClockStep
    /\ UNCHANGED <<keyVars, histVars, cacheVars, connVars, optVars, batchVars, trackVars, filterVars, subVars, obsVars>>

InitReconnect ==
    /\ now = StartTime
    /\ apiKeys = 1
    /\ InitBackendKeys
    /\ InitHistory
    /\ maxTransactions = MaxCapacity
    /\ InitCache
    /\ InitObservations
    /\ InitTracking
    /\ InitFilter
    /\ InitConnection
    /\ sockets = [s \in 1 .. MaxAttemptSockets |-> NoSocket]
    /\ reconnectAttempts \in {1, RetryAttempts}

NextReconnect ==
    \/ Start
    \/ (\E s \in DOMAIN sockets : HandleOpen(s)) /\ UNCHANGED <<subVars, emitted>>
    \/ \E s \in DOMAIN sockets : HandleError(s)
    \/ ConnectFailed
    \/ (\E s \in DOMAIN sockets : \E code \in {1000, 1006} : HandleClose(s, code))
       /\ UNCHANGED emitted
    \/ ReconnectTimerDue /\ ReconnectTimerFires
    \/ Elapse

SpecReconnect == InitReconnect /\ [][NextReconnect]_vars

\* a step in which new WebSocket(...) ran: a connection attempt
ConnectionAttempt ==
    \E s \in DOMAIN sockets : sockets[s].readyState = "none" /\ sockets'[s].readyState # "none"

\* C13: once 'maxReconnectAttemptsReached' has been emitted (scheduleReconnect
\* found reconnectCount >= reconnectAttempts and armed no timer), the backend
\* starts no connection attempt until the owner calls connect().
C13_ExhaustionTerminal ==
    [][ /\ (~exhausted /\ exhausted') => reconnectTimers' = reconnectTimers
        /\ (exhausted /\ exhausted') => ~ConnectionAttempt
      ]_vars

\* the timer a step arms, if it arms one
ArmedNow == reconnectTimers'[Len(reconnectTimers')]

\* C14: the retry after the n-th consecutive failed attempt since the last open
\* event is scheduled after exactly min(reconnectDelay * 2^n, maxReconnectDelay),
\* never more than maxReconnectDelay; reconnectCount grows by exactly one per
\* retry and is 0 after every open event.
C14_BackoffSchedule ==
    [][ /\ Len(reconnectTimers') > Len(reconnectTimers)
           => /\ ArmedNow.delay = Delay(retries)
              /\ ArmedNow.delay <= MaxReconnectDelay
              /\ ArmedNow.due = now + ArmedNow.delay
        /\ reconnectCount' > reconnectCount
           => reconnectCount' = reconnectCount + 1 /\ retries' = retries + 1
        /\ (\E s \in DOMAIN sockets : HandleOpen(s)) => reconnectCount' = 0
      ]_vars

---------------------------------------------------------------------------
(* disconnect() *)

\* C15: from disconnect() until the owner's next connect() the backend starts
\* no connection attempt: no timer callback and no event handler creates a socket.
C15_IdleAfterDisconnect ==
    [][ (idle /\ idle') => ~ConnectionAttempt ]_vars

\* what disconnect() leaves behind
Disconnected ==
    /\ ~isConnected /\ ~isConnecting /\ websocket = 0
    /\ subscriptions = << >> /\ pendingSubscriptions = << >>
    /\ ~reconnectTimer /\ ~heartbeatTimer /\ ~keyRotationTimer

\* the backend's own variables
BackendState ==
    <<websocket, sockets, isConnected, isConnecting, reconnectCount, subscriptions,
      pendingSubscriptions, heartbeatTimer, keyRotationTimer, reconnectTimers, reconnectTimer,
      reconnectSleeps, waiters, keyVars>>

\* C16: disconnect() leaves the backend idle (both flags false, no socket, the
\* socket it had told to close) with both subscription sets empty, whatever
\* the state it is called in; called in the state it leaves behind, it
\* changes nothing.
C16_DisconnectIdempotent ==
    [][ Stop => /\ Disconnected'
                /\ websocket # 0 => sockets'[websocket].readyState \notin {"CONNECTING", "OPEN"}
                /\ Disconnected => BackendState' = BackendState
      ]_vars

\* a second disconnect() right after the one that closed an open socket with subscriptions
C16_Witness ==
    /\ Len(microtasks) = 2
    /\ microtasks[1].kind = "stopped" /\ microtasks[2].kind = "stopped"
    /\ Disconnected
    /\ trackedWallets # {}
    /\ \E s \in DOMAIN sockets : sockets[s].readyState = "CLOSING"

\* the interval of TokenDataService.setupCacheCleanup: armed by the constructor,
\* its id is not kept, so nothing can clear it
CacheCleanupInterval == TRUE

\* no timer of the tracker's components is armed
NoTimerArmed ==
    /\ ~heartbeatTimer
    /\ ~keyRotationTimer
    /\ reconnectTimers = << >>
    /\ reconnectSleeps = 0
    /\ \A i \in 1 .. Len(waiters) : ~waiters[i].timeout
    /\ resetTimers = << >>
    /\ ~CacheCleanupInterval

\* C17: when disconnect() has run, no timer is armed: heartbeat, reconnect
\* timers, rotation interval, connection timeouts, failure-reset timers and
\* the cache sweep interval are all cancelled.
C17_NoTimerLeak ==
    [][ Stop => NoTimerArmed' ]_vars

---------------------------------------------------------------------------
(* Properties of subscribeToWallet *)

\* the connection is open: the open event was handled and the socket is open
Open == isConnected /\ CanSend(websocket, sockets)

\* addWallet(a) reaches subscribeToWallet(a)
Subscribes(a) ==
    AddWallet(a) /\ ValidateWalletAddress(a) /\ a \notin trackedWallets

\* C18: subscribeToWallet called while the connection is not open adds the
\* wallet to the pending subscriptions, sends nothing and resolves with false;
\* called while it is open it sends the subscription message, adds the wallet
\* to the subscriptions, removes it from the pending ones and resolves with true.
C18_SubscribeByState ==
    [][ \A a \in Addresses :
          Subscribes(a) =>
             IF Open
             THEN /\ SubscribeToWallet(a, isConnected).sent
                  /\ SubscribeToWallet(a, isConnected).result
                  /\ a \in Range(subscriptions')
                  /\ a \notin Range(pendingSubscriptions')
             ELSE /\ ~SubscribeToWallet(a, isConnected).sent
                  /\ ~SubscribeToWallet(a, isConnected).result
                  /\ a \in Range(pendingSubscriptions')
                  /\ subscriptions' = subscriptions
      ]_vars

---------------------------------------------------------------------------
(* The tracker with the history of the owner's calls up to the first open event *)

\* addWallet(a), recording that it reached subscribeToWallet(a)
AddWalletRecorded(a) ==
    /\ AddWallet(a)
    /\ lastCall' = IF ~opened /\ ValidateWalletAddress(a) /\ a \notin trackedWallets
                   THEN [lastCall EXCEPT ![a] = "subscribe"]
                   ELSE lastCall
    /\ UNCHANGED <<opened, previous>>

\* removeWallet(a), recording that it reached unsubscribeFromWallet(a)
RemoveWalletRecorded(a) ==
    /\ RemoveWallet(a)
    /\ lastCall' = IF ~opened /\ a \in trackedWallets
                   THEN [lastCall EXCEPT ![a] = "unsubscribe"]
                   ELSE lastCall
    /\ UNCHANGED <<opened, previous>>

\* the open event of socket s, recorded
HandleOpenRecorded(s) ==
    /\ HandleOpen(s)
    /\ opened' = TRUE
    /\ UNCHANGED <<lastCall, previous, emitted>>

InitSubscribe ==
    /\ now = StartTime
    /\ apiKeys = MaxKeys
    /\ InitBackendKeys
    /\ InitHistory
    /\ maxTransactions = MaxCapacity
    /\ InitCache
    /\ InitConnection
    /\ sockets = [s \in SocketIds |-> NoSocket]
    /\ reconnectAttempts = ReconnectAttempts
    /\ InitObservations
    /\ InitTracking
    /\ InitFilter

\* the owner's calls, the open events and the clean close events: the steps that
\* read or write the two subscription sets before and at an open event
NextSubscribe ==
    \/ \E a \in Addresses : AddWalletRecorded(a)
    \/ \E a \in Addresses : RemoveWalletRecorded(a)
    \/ Start
    \/ Stop
    \/ StopClear
    \/ \E s \in DOMAIN sockets : HandleOpenRecorded(s)
    \/ ResubscribeNext
    \/ (\E s \in DOMAIN sockets : HandleClose(s, 1000)) /\ UNCHANGED emitted

SpecSubscribe == InitSubscribe /\ [][NextSubscribe]_vars

\* the wallets whose last call before the first open event was unsubscribeFromWallet
Unsubscribed == {a \in Addresses : lastCall[a] = "unsubscribe"}

\* the wallets whose last call before the first open event was subscribeToWallet
Subscribed == {a \in Addresses : lastCall[a] = "subscribe"}

---------------------------------------------------------------------------
(* The filter on its own: any options, any transaction, the lists changed *)
(* between calls                                                          *)

\* the sequences over set of at most MaxItems items
SeqsUpTo(set) == UNION {[1 .. n -> set] : n \in 0 .. MaxItems}

\* uiChange of a token transfer: at the default minAmount, and just below it
UiChanges == {0 - MinAmount, MinAmount - 1}

\* change of a balance, in lamports: half the default minAmount, and minAmount
LamportChanges == {0 - MinAmount \div 2, MinAmount}

ProgramIds == {"Jupiter", "programX"}

Accounts == {"SystemProgram", "walletA"}

\* no timestamp, the oldest one that passes by default, the youngest that does not
Timestamps == {0, StartTime - MaxAge, StartTime - MaxAge - 1}

Transactions ==
    [status : {"success", "failed"}, timestamp : Timestamps,
     tokenTransfers : SeqsUpTo(UiChanges), balanceChanges : SeqsUpTo(LamportChanges),
     instructions : SeqsUpTo(ProgramIds), accounts : SeqsUpTo(Accounts)]

InitFilterAlone ==
    /\ now = StartTime
    /\ apiKeys = 0
    /\ InitBackendKeys
    /\ InitHistory
    /\ maxTransactions = MaxCapacity
    /\ InitCache
    /\ InitConnection
    /\ sockets = [s \in SocketIds |-> NoSocket]
    /\ reconnectAttempts = ReconnectAttempts
    /\ InitObservations
    /\ InitTracking
    /\ \E enableFiltering \in {AbsentFlag, Given(TRUE), Given(FALSE)} :
       \E minAmount \in {AbsentNumber, Given(0)} :
          filterOptions = Options(enableFiltering, minAmount, AbsentNumber)
    /\ blacklistAddresses = SystemPrograms
    /\ whitelistPrograms = DexPrograms
    /\ transaction \in Transactions
    /\ included = [called |-> FALSE, result |-> FALSE]

NextFilter ==
    \/ CallShouldInclude /\ UNCHANGED previous
    \/ \E address \in Accounts : AddToBlacklist(address)
    \/ \E address \in Accounts : RemoveFromBlacklist(address)
    \/ \E programId \in ProgramIds : AddToWhitelist(programId)
    \/ \E programId \in ProgramIds : RemoveFromWhitelist(programId)

SpecFilter == InitFilterAlone /\ [][NextFilter]_vars

\* C20 as stated: whatever the options, the lists and the rest of the
\* transaction, shouldInclude returns false for a transaction whose status is
\* failed.
C20_FailedAlwaysExcluded ==
    [][ (CallShouldInclude /\ transaction.status = "failed") => ~included'.result ]_vars

\* C20: with filtering enabled, whatever the other options, the lists and the
\* rest of the transaction, shouldInclude returns false for a transaction whose
\* status is failed; with filtering disabled it returns true for it.
C20_FailedExcludedWhenFiltering ==
    [][ (CallShouldInclude /\ transaction.status = "failed")
        => included'.result = ~filterOptions.enableFiltering ]_vars

\* shouldInclude returned false for a failed transaction that passes the age,
\* amount, program and address filters and carries a token transfer
C20_Witness ==
    /\ included = [called |-> TRUE, result |-> FALSE]
    /\ transaction.status = "failed"
    /\ filterOptions.enableFiltering
    /\ PassesAgeFilter(transaction) /\ PassesAmountFilter(transaction)
    /\ PassesProgramFilter(transaction) /\ PassesAddressFilter(transaction)
    /\ Len(transaction.tokenTransfers) > 0
    /\ Len(transaction.instructions) > 0 /\ Len(transaction.accounts) > 0
    /\ transaction.timestamp # 0

\* every participant of tx is on the blacklist, and there is one
AllDenylisted(tx) ==
    /\ Len(tx.accounts) > 0
    /\ \A i \in 1 .. Len(tx.accounts) : tx.accounts[i] \in blacklistAddresses

\* tx with one more participant
WithParticipant(tx, account) == [tx EXCEPT !.accounts = Append(@, account)]

\* the age, amount, program and status / shape predicates pass
OtherFiltersPass(tx) ==
    /\ PassesAgeFilter(tx) /\ PassesAmountFilter(tx)
    /\ PassesProgramFilter(tx) /\ PassesTypeFilter(tx)

---------------------------------------------------------------------------
(* The filter called again and again on one transaction, while the clock  *)
(* moves and the blacklist changes                                        *)

\* a call of shouldInclude, recorded with what it ran with
CallShouldIncludeRecorded ==
    /\ CallShouldInclude
    /\ previous' = [called |-> TRUE, result |-> ShouldInclude(transaction), at |-> now,
                    blacklistAddresses |-> blacklistAddresses,
                    whitelistPrograms |-> whitelistPrograms,
                    repeated |-> /\ previous.called
                                 /\ previous.at = now
                                 /\ previous.blacklistAddresses = blacklistAddresses
                                 /\ previous.whitelistPrograms = whitelistPrograms]

InitFilterCalls ==
    /\ now = StartTime
    /\ apiKeys = 0
    /\ InitBackendKeys
    /\ InitHistory
    /\ maxTransactions = MaxCapacity
    /\ InitCache
    /\ InitConnection
    /\ sockets = [s \in SocketIds |-> NoSocket]
    /\ reconnectAttempts = ReconnectAttempts
    /\ InitObservations
    /\ InitTracking
    /\ filterOptions = Options(AbsentFlag, AbsentNumber, AbsentNumber)
    /\ blacklistAddresses = SystemPrograms
    /\ whitelistPrograms = DexPrograms
    /\ transaction \in Transactions
    /\ included = [called |-> FALSE, result |-> FALSE]

NextFilterCalls ==
    \/ CallShouldIncludeRecorded
    \/ Millisecond
    \/ AddToBlacklist("walletA")
    \/ RemoveFromBlacklist("walletA")

SpecFilterCalls == InitFilterCalls /\ [][NextFilterCalls]_vars

\* the call of this step runs with the lists the previous call ran with
SameListsAgain ==
    /\ CallShouldIncludeRecorded
    /\ previous.called
    /\ previous.blacklistAddresses = blacklistAddresses
    /\ previous.whitelistPrograms = whitelistPrograms

\* a call of shouldInclude changes neither the filter nor the transaction
CallChangesNothing ==
    CallShouldIncludeRecorded
    => UNCHANGED <<filterOptions, blacklistAddresses, whitelistPrograms, transaction>>

---------------------------------------------------------------------------
(* Properties of the single predicates *)

\* some token transfer of tx has an absolute uiChange of minAmount or more
SomeTransferReaches(tx) ==
    \E i \in 1 .. Len(tx.tokenTransfers) : Abs(tx.tokenTransfers[i]) >= filterOptions.minAmount

\* some balance change of tx has an absolute change of minAmount or more
SomeBalanceChangeReaches(tx) ==
    \E i \in 1 .. Len(tx.balanceChanges) : Abs(tx.balanceChanges[i]) >= filterOptions.minAmount

\* C23: in every call of shouldInclude, the amount filter passes exactly when
\* some token transfer reaches minAmount, or some balance change does, or the
\* transaction has neither token transfers nor balance changes.
C23_AmountPredicate ==
    [][ CallShouldInclude
        => (PassesAmountFilter(transaction)
            <=> \/ SomeTransferReaches(transaction)
                \/ SomeBalanceChangeReaches(transaction)
                \/ (transaction.tokenTransfers = << >> /\ transaction.balanceChanges = << >>))
      ]_vars

\* the participants of tx that are not on the blacklist
Remaining(tx) == Range(tx.accounts) \ blacklistAddresses

\* C24: in every call of shouldInclude, the address filter rejects exactly
\* when no participant is left once the blacklisted ones are removed, a
\* transaction without participants included, and passes otherwise.
C24_AddressPredicate ==
    [][ CallShouldInclude
        => (PassesAddressFilter(transaction) <=> Remaining(transaction) # {}) ]_vars

---------------------------------------------------------------------------
(* WalletTracker.handleTransaction: filter, enrichment, history, events *)

MaxReceived == 3

\* the getTokenData call that starts next
FirstFreeCall == CHOOSE c \in CallIds :
                    calls[c].state = "none" /\ \A d \in 1 .. (c - 1) : calls[d].state # "none"

\* a transaction object: the fields the filter, enrichTransaction and the
\* history read; tokenMint "", amount 0, tokenData null, usdValue 0 stand for
\* fields that are not set
TransactionObject(signature, status, timestamp, mints, accountKeys, tokenMint, amount) ==
    [signature |-> signature, status |-> status, timestamp |-> timestamp,
     tokenTransfers |-> [i \in 1 .. Len(mints) |-> MinAmount], mints |-> mints,
     balanceChanges |-> << >>, instructions |-> << >>, accounts |-> accountKeys,
     tokenMint |-> tokenMint, amount |-> amount,
     tokenData |-> Null, tokenLogo |-> "null", usdValue |-> 0]

\* processTransactionData(rawData): the token transfers carry the mints; no
\* tokenMint and no amount is set
ProcessTransactionData(rawData) ==
    TransactionObject(rawData.signature, IF rawData.err THEN "failed" ELSE "success", now,
                      rawData.mints, rawData.accountKeys, NoMint, 0)

\* the object enrichTransaction returns: threw when the lookup rejected,
\* else tokenData is what the lookup returned (null without lookup)
EnrichTransaction(tx, threw, tokenData) ==
    IF threw THEN tx
    ELSE [tx EXCEPT
             !.tokenData = tokenData,
             !.tokenLogo = IF tokenData = Null THEN @ ELSE tokenData.logoURI,
             !.usdValue = IF tokenData = Null THEN @
                          ELSE IF tokenData.priceUsd # 0 /\ tx.amount # 0
                          THEN tx.amount * tokenData.priceUsd ELSE @,
             !.timestamp = IF @ = 0 THEN now ELSE @]

StoreAndEmit_OnlyStore(enriched) ==
    /\ AddTransaction(enriched)
    /\ UNCHANGED emitted

\* the end of handleTransaction: addTransaction, then emit('transaction')
StoreAndEmit(enriched) ==
    /\ AddTransaction(enriched)
    /\ emitted' = Append(emitted, [event |-> "transaction", signature |-> enriched.signature,
                                   transaction |-> enriched])

\* handleTransaction(tx) up to its return or to the await of getTokenData;
\* this.logger.debug is not a function: the call throws inside the try block
HandleTransaction(tx) ==
    /\ received < MaxReceived
    /\ tx.signature = received + 1
    /\ received' = received + 1
    /\ transaction' = tx
    /\ included' = [called |-> TRUE, result |-> ShouldInclude(tx)]
    /\ IF ~ShouldInclude(tx)
       THEN /\ emitted' = Append(emitted, [event |-> "error", signature |-> tx.signature,
                                           transaction |-> Null])
            /\ UNCHANGED <<handling, histVars, cacheVars>>
       ELSE IF tx.tokenMint = NoMint
       THEN /\ StoreAndEmit(EnrichTransaction(tx, FALSE, Null))
            /\ UNCHANGED <<handling, cacheVars>>
       ELSE /\ \E c \in CallIds : calls[c].state = "none"
            /\ GetTokenData(tx.tokenMint)
            /\ UNCHANGED priceCache
            /\ handling' = [handling EXCEPT ![FirstFreeCall] = [active |-> TRUE, transaction |-> tx]]
            /\ UNCHANGED <<emitted, histVars>>
    /\ UNCHANGED <<now, keyVars, connVars, optVars, batchVars, subVars, obsVars,
                   filterOptions, blacklistAddresses, whitelistPrograms>>

\* handleTransactionNotification(params): the backend emits, the tracker handles
HandleTransactionNotification(rawData) ==
    HandleTransaction(ProcessTransactionData(rawData))

\* handleTransaction after the await: getTokenData call c returned or threw
EnrichmentReturns(c) ==
    /\ handling[c].active
    /\ calls[c].state \in {"returned", "threw"}
    /\ StoreAndEmit(EnrichTransaction(handling[c].transaction, calls[c].state = "threw",
                                      calls[c].result))
    /\ handling' = [handling EXCEPT ![c] = NoRun]
    /\ UNCHANGED <<now, keyVars, connVars, optVars, batchVars, subVars, obsVars, filterVars, cacheVars,
                   received>>

\* transactions a caller hands to handleTransaction as the n-th: with tokenMint and amount
DirectTransactions(n) ==
    {TransactionObject(n, status, 0, <<"mintA">>, <<"walletA">>, "mintA", 2) :
        status \in {"success", "failed"}}

\* transaction notifications the backend gets as the n-th
Notifications(n) ==
    {[signature |-> n, err |-> err, mints |-> <<"mintA">>, accountKeys |-> <<"walletA">>] :
        err \in BOOLEAN}

InitEnrich ==
    /\ now = StartTime
    /\ apiKeys = 0
    /\ InitBackendKeys
    /\ InitHistory
    /\ maxTransactions = MaxCapacity
    /\ InitCache
    /\ InitConnection
    /\ sockets = [s \in SocketIds |-> NoSocket]
    /\ reconnectAttempts = ReconnectAttempts
    /\ InitObservations
    /\ InitTracking
    /\ InitFilter

NextEnrich ==
    \/ \E tx \in DirectTransactions(received + 1) : HandleTransaction(tx)
    \/ \E rawData \in Notifications(received + 1) : HandleTransactionNotification(rawData)
    \/ \E c \in CallIds : EnrichmentReturns(c)
    \/ (\E f \in FetchIds : FetchSucceeded(f))
       /\ UNCHANGED <<now, keyVars, histVars, connVars, optVars, batchVars, trackVars, filterVars, subVars, obsVars>>
    \/ (\E f \in FetchIds : FetchAttemptFailed(f))
       /\ UNCHANGED <<now, keyVars, histVars, connVars, optVars, batchVars, trackVars, filterVars, subVars, obsVars>>
    \/ (\E f \in FetchIds : RetryDelayElapsed(f))
       /\ UNCHANGED <<now, keyVars, histVars, connVars, optVars, batchVars, trackVars, filterVars, subVars, obsVars>>

SpecEnrich == InitEnrich /\ [][NextEnrich]_vars

\* handleTransaction was called and the filter returned false
FilteredOut == received' = received + 1 /\ ~included'.result

\* C25: a transaction for which shouldInclude returns false is dropped with no
\* further processing: the history is unchanged, no enrichment lookup is made
\* and nothing is emitted for it, neither 'transaction' nor 'error'
C25_DroppedSilently ==
    [][FilteredOut => UNCHANGED <<histVars, cacheVars, emitted, handling>>]_vars

\* handleTransaction was called with a transaction made by
\* processTransactionData, and the filter returned true
BackendTransactionPassed ==
    /\ received' = received + 1
    /\ included'.result
    /\ transaction'.tokenMint = NoMint

\* a getTokenData call for mint is made in this step
LookupStarted(mint) ==
    \E c \in CallIds : calls[c].state = "none" /\ calls'[c].state # "none" /\ calls'[c].mint = mint

\* C26: for every transaction produced by processTransactionData that passes
\* the filter, getTokenData is called for each distinct mint of the
\* transaction's token transfers
C26_LookupPerMint ==
    [][BackendTransactionPassed => \A mint \in Range(transaction'.mints) : LookupStarted(mint)]_vars

\* the places in emitted of the events of one kind about one transaction
Events(event, signature) ==
    {i \in DOMAIN emitted : emitted[i].event = event /\ emitted[i].signature = signature}

\* the run of handleTransaction that waits for getTokenData call c resumes,
\* and the lookup gave null or rejected
ResumesWithoutData(c) ==
    /\ handling[c].active
    /\ ~handling'[c].active
    /\ calls[c].result = Null

\* the transaction without tokenData and usdValue
Unenriched(tx) ==
    /\ tx.tokenData = Null
    /\ tx.usdValue = 0

\* C27: when a transaction passes the filter and the lookup for its mint
\* yields null or fails, the transaction is still pushed to the history and
\* emitted, without tokenData and usdValue, exactly once, and no 'error'
\* event is emitted for it
C27_EnrichmentFailureNonFatal ==
    /\ [][\A c \in CallIds :
            ResumesWithoutData(c) =>
               /\ Len(emitted') = Len(emitted) + 1
               /\ emitted'[Len(emitted')].event = "transaction"
               /\ emitted'[Len(emitted')].signature = handling[c].transaction.signature
               /\ Unenriched(emitted'[Len(emitted')].transaction)
               /\ Head(transactions') = emitted'[Len(emitted')].transaction
               /\ Head(transactions').signature = handling[c].transaction.signature]_vars
    /\ [](\A signature \in 1 .. received :
            Events("transaction", signature) # {} =>
               /\ Cardinality(Events("transaction", signature)) = 1
               /\ Events("error", signature) = {})

\* one lookup returned null to its owner, one rejected for a joiner, and both
\* transactions were emitted
C27_Witness ==
    \E c, d \in CallIds :
       /\ calls[c].state = "returned" /\ calls[c].result = Null /\ calls[c].mint # NoMint
       /\ calls[d].state = "threw"
       /\ ~handling[c].active /\ ~handling[d].active
       /\ \E i, j \in DOMAIN emitted :
             /\ i # j
             /\ emitted[i].event = "transaction" /\ emitted[j].event = "transaction"
             /\ emitted[i].transaction.tokenMint = calls[c].mint
             /\ emitted[j].transaction.tokenMint = calls[d].mint

---------------------------------------------------------------------------
(* Failed fetches *)

\* run f throws lastError in this step
FetchFails(f) == fetches[f].phase = "fetching" /\ fetches'[f].phase = "failed"

\* the getTokenData call that started run f and awaits it
StartedAndAwaits(c, f) == calls[c].state = "waiting" /\ calls[c].fetch = f /\ calls[c].owner

\* call c is a getTokenData(mint) made in this step
CallMade(c, mint) == calls[c].state = "none" /\ calls'[c].state # "none" /\ calls'[c].mint = mint

\* an earlier fetch of mint failed, and nothing of mint is cached or in flight
FailedBefore(mint) ==
    /\ \E f \in FetchIds : fetches[f].mint = mint /\ fetches[f].phase = "failed"
    /\ ~HasPending(mint)
    /\ ~HasCachedToken(mint)

\* C28: a fetch makes at most maxRetries attempts and stops at the first
\* success; when all attempts fail, getTokenData returns null, no cache tier
\* gains an entry for the mint, the pendingRequests entry is removed, and the
\* next getTokenData for the mint starts a new fetch
C28_FailedFetchNotCached ==
    /\ [](\A f \in FetchIds : fetches[f].attempt + 1 <= MaxRetries)
    /\ [][\A f \in FetchIds :
            /\ fetches[f].phase \in {"ok", "failed"} => fetches'[f] = fetches[f]
            /\ FetchFails(f) =>
                  /\ fetches[f].attempt + 1 = MaxRetries
                  /\ UNCHANGED <<cache, priceCache, logoCache>>
                  /\ ~cache[fetches[f].mint].has \/ Expired(cache[fetches[f].mint], CacheTimeout)
                  /\ pendingRequests'[fetches[f].mint] = 0
                  /\ \A c \in CallIds :
                        StartedAndAwaits(c, f) =>
                           calls'[c].state = "returned" /\ calls'[c].result = Null]_vars
    /\ [][\A c \in CallIds, mint \in Mints :
            CallMade(c, mint) /\ FailedBefore(mint) =>
               /\ calls'[c].owner
               /\ calls'[c].state = "waiting"
               /\ fetches[calls'[c].fetch].phase = "none"
               /\ fetches'[calls'[c].fetch].phase = "fetching"
               /\ fetches'[calls'[c].fetch].mint = mint
               /\ fetches'[calls'[c].fetch].attempt = 0]_vars

\* a fetch failed, its caller got null, and the next call for the mint started
\* another fetch
C28_Witness ==
    \E f, g \in FetchIds, c, d \in CallIds :
       /\ f # g /\ c # d
       /\ fetches[f].phase = "failed" /\ fetches[g].phase # "none"
       /\ fetches[f].mint = fetches[g].mint
       /\ calls[c].fetch = f /\ calls[c].owner /\ calls[c].state = "returned" /\ calls[c].result = Null
       /\ calls[d].fetch = g /\ calls[d].owner

---------------------------------------------------------------------------
(* TokenDataService.getBatchTokenData: cached and fetched mints of a list *)

MaxBatches == 2

\* the mints of list that getCachedToken does not return, in order
RECURSIVE ToFetch(_)
ToFetch(list) ==
    IF list = << >> THEN << >>
    ELSE IF HasCachedToken(Head(list)) THEN ToFetch(Tail(list))
    ELSE <<Head(list)>> \o ToFetch(Tail(list))

\* a fetchTokenData run of fetchBatchTokenData, at its first attempt
BatchRun(mint) == [mint |-> mint, attempt |-> 0, phase |-> "fetching", data |-> Null]

\* getBatchTokenData(tokenMints) up to its return or its await: the cache is
\* read per mint (an expired entry is deleted), the others are fetched, one
\* fetchTokenData run per element and no look at pendingRequests
GetBatchTokenData(tokenMints) ==
    /\ batch.state \in {"none", "returned"}
    /\ batch.id < MaxBatches
    /\ batch' = [state |-> IF ToFetch(tokenMints) = << >> THEN "returned" ELSE "waiting",
                 id |-> batch.id + 1,
                 tokenMints |-> tokenMints,
                 results |-> [m \in Mints |->
                                 IF m \in Range(tokenMints) /\ HasCachedToken(m)
                                 THEN [has |-> TRUE, data |-> cache[m].data]
                                 ELSE NoResult],
                 runs |-> [i \in 1 .. Len(ToFetch(tokenMints)) |-> BatchRun(ToFetch(tokenMints)[i])]]
    /\ cache' = [m \in Mints |->
                    IF m \in Range(tokenMints) /\ cache[m].has /\ Expired(cache[m], CacheTimeout)
                    THEN NoEntry ELSE cache[m]]
    /\ UNCHANGED <<priceCache, logoCache, pendingRequests, fetches, calls>>

\* the runs that fulfilled with data for mint
Fulfilled(runs, mint) == {i \in DOMAIN runs : runs[i].mint = mint /\ runs[i].phase = "ok"}

\* the Map of fetchBatchTokenData: a later element of the list overwrites an earlier one
BatchResults(runs) ==
    [m \in Mints |->
        IF Fulfilled(runs, m) = {} THEN NoResult
        ELSE [has |-> TRUE,
              data |-> runs[CHOOSE i \in Fulfilled(runs, m) : \A j \in Fulfilled(runs, m) : j <= i].data]]

BatchRunSettled_DropsResults(runs) ==
    /\ batch' = [batch EXCEPT
                    !.state = IF \E i \in DOMAIN runs : runs[i].phase = "fetching"
                              THEN "waiting" ELSE "returned",
                    !.runs = runs]
    /\ UNCHANGED <<cache, priceCache, logoCache>>

\* a run of the batch settled: when it was the last one, Promise.allSettled
\* resolves, getBatchTokenData sets and caches every fetched entry and returns
BatchRunSettled(runs) ==
    IF \E i \in DOMAIN runs : runs[i].phase = "fetching"
    THEN /\ batch' = [batch EXCEPT !.runs = runs]
         /\ UNCHANGED <<cache, priceCache, logoCache>>
    ELSE /\ batch' = [batch EXCEPT
                         !.state = "returned",
                         !.runs = runs,
                         !.results = [m \in Mints |->
                                         IF BatchResults(runs)[m].has THEN BatchResults(runs)[m] ELSE @[m]]]
         /\ cache' = [m \in Mints |->
                         IF BatchResults(runs)[m].has
                         THEN [has |-> TRUE, timestamp |-> now, data |-> BatchResults(runs)[m].data]
                         ELSE cache[m]]
         /\ priceCache' = [m \in Mints |->
                              IF BatchResults(runs)[m].has
                              THEN [has |-> TRUE, timestamp |-> now,
                                    price |-> BatchResults(runs)[m].data.priceUsd]
                              ELSE priceCache[m]]
         /\ logoCache' = [m \in Mints |->
                             IF BatchResults(runs)[m].has /\ BatchResults(runs)[m].data.logoURI # "null"
                             THEN [has |-> TRUE, timestamp |-> now,
                                   logoURI |-> BatchResults(runs)[m].data.logoURI]
                             ELSE logoCache[m]]

\* an attempt of the i-th run of the batch gets a well-formed answer
BatchFetchSucceeded(i) ==
    /\ batch.state = "waiting"
    /\ i \in DOMAIN batch.runs
    /\ batch.runs[i].phase = "fetching"
    /\ \E price \in Prices, logo \in Logos :
          BatchRunSettled([batch.runs EXCEPT
                              ![i].phase = "ok",
                              ![i].data = ProcessTokenData([address |-> batch.runs[i].mint,
                                                            price |-> price, logo_uri |-> logo])])
    /\ UNCHANGED <<pendingRequests, fetches, calls>>

\* an attempt of the i-th run fails: the next attempt follows the backoff
\* delay, or after the last one the run throws and the batch notes null
BatchFetchAttemptFailed(i) ==
    /\ batch.state = "waiting"
    /\ i \in DOMAIN batch.runs
    /\ batch.runs[i].phase = "fetching"
    /\ IF batch.runs[i].attempt < MaxRetries - 1
       THEN /\ batch' = [batch EXCEPT !.runs[i].attempt = @ + 1]
            /\ UNCHANGED <<cache, priceCache, logoCache>>
       ELSE BatchRunSettled([batch.runs EXCEPT ![i].phase = "failed"])
    /\ UNCHANGED <<pendingRequests, fetches, calls>>

\* the lists getBatchTokenData is called with
MintLists == {<< >>, <<"mintA">>, <<"mintA", "mintB">>, <<"mintA", "mintA">>}

NextBatch ==
    \/ (\E tokenMints \in MintLists : GetBatchTokenData(tokenMints))
       /\ UNCHANGED <<now, keyVars, histVars, connVars, optVars, trackVars, filterVars, subVars, obsVars>>
    \/ (\E i \in DOMAIN batch.runs : BatchFetchSucceeded(i))
       /\ UNCHANGED <<now, keyVars, histVars, connVars, optVars, trackVars, filterVars, subVars, obsVars>>
    \/ (\E i \in DOMAIN batch.runs : BatchFetchAttemptFailed(i))
       /\ UNCHANGED <<now, keyVars, histVars, connVars, optVars, trackVars, filterVars, subVars, obsVars>>
    \/ ClearCache
       /\ UNCHANGED <<now, keyVars, histVars, connVars, optVars, batchVars, trackVars, filterVars, subVars, obsVars>>
    \/ CacheTick

SpecBatch == InitTokenData /\ [][NextBatch]_vars

\* the keys of a result Map
Keys(results) == {m \in Mints : results[m].has}

\* getBatchTokenData is called in this step
BatchCalled == batch'.id = batch.id + 1

\* getBatchTokenData returns in this step
BatchReturned == batch'.state = "returned" /\ (batch.state = "waiting" \/ BatchCalled)

\* the requested mints with an unexpired cache entry at the call
CachedRequested == {m \in Range(batch'.tokenMints) : HasCachedToken(m)}

\* the mints for which a fetch of the returning batch succeeded
FetchedRequested == {m \in Mints : \E i \in DOMAIN batch'.runs :
                                      batch'.runs[i].mint = m /\ batch'.runs[i].phase = "ok"}

\* C29: getBatchTokenData returns a Map whose keys are exactly the requested
\* mints that had an unexpired cache entry plus the uncached requested mints
\* whose fetch succeeded; a mint whose fetch failed is absent from the Map,
\* never mapped to null, and is not cached
C29_BatchPartialFailure ==
    /\ [][BatchCalled =>
            /\ Keys(batch'.results) = CachedRequested
            /\ Range([i \in DOMAIN batch'.runs |-> batch'.runs[i].mint])
                  = Range(batch'.tokenMints) \ CachedRequested]_vars
    /\ [][BatchReturned /\ ~BatchCalled =>
            /\ Keys(batch'.results) = Keys(batch.results) \cup FetchedRequested
            /\ FetchedRequested \subseteq Range(batch.tokenMints)
            /\ \A m \in Range(batch.tokenMints) \ Keys(batch'.results) :
                  /\ cache'[m] = cache[m]
                  /\ priceCache'[m] = priceCache[m]
                  /\ logoCache'[m] = logoCache[m]
                  /\ ~HasCachedToken(m)]_vars
    /\ [][batch.state = "waiting" /\ batch'.state = "waiting" =>
            batch'.results = batch.results]_vars
    /\ [](\A m \in Mints : batch.results[m].has => batch.results[m].data # Null)

\* a batch of two mints returned after one fetch succeeded and the other failed
C29_Witness ==
    /\ batch.state = "returned"
    /\ \E i, j \in DOMAIN batch.runs :
          /\ batch.runs[i].phase = "ok"
          /\ batch.runs[j].phase = "failed"
          /\ batch.runs[i].mint # batch.runs[j].mint
          /\ batch.results[batch.runs[i].mint].has
          /\ ~batch.results[batch.runs[j].mint].has
          /\ ~cache[batch.runs[j].mint].has

---------------------------------------------------------------------------
(* The connection events and what WalletTracker makes of them *)

\* an event as the consumer's listener gets it: its name and its argument
Event(event, payload) == [event |-> event, payload |-> payload]

\* the 'connected' listener of setupEventHandlers, run by the backend's emit
\* in handleOpen: emit('connected')
HandleOpenForwarded(s) ==
    /\ HandleOpen(s)
    /\ emitted' = Append(emitted, Event("connected", AbsentNumber))
    /\ UNCHANGED subVars

\* the 'disconnected' listener, run by emit('disconnected', event) in
\* handleClose: it takes no argument and emits 'disconnected' without one;
\* no listener is registered for 'maxReconnectAttemptsReached'
HandleCloseForwarded(s, code) ==
    /\ HandleClose(s, code)
    /\ emitted' = Append(emitted, Event("disconnected", AbsentNumber))

\* handleMessage(event) on socket s with an error object: handleRpcError(error).
\* For the codes -32600 and -32601 markApiKeyFailed(currentApiKeyIndex) and
\* rotateApiKey(), which runs reconnect() up to its wait when isConnected
HandleRpcError(s, code) ==
    /\ microtasks = << >>
    /\ sockets[s].readyState = "OPEN"
    /\ IF code = -32600 \/ code = -32601
       THEN /\ MarkCurrentKeyFailed
            /\ IF isConnected
               THEN sockets' = CloseSocket(websocket) /\ reconnectSleeps' = reconnectSleeps + 1
               ELSE UNCHANGED <<sockets, reconnectSleeps>>
       ELSE UNCHANGED <<apiKeyFailures, resetTimers, sockets, reconnectSleeps>>
    /\ UNCHANGED <<now, apiKeys, lastApiKeyUsage, currentApiKeyIndex, optVars, batchVars, trackVars, filterVars, subVars, histVars, cacheVars, obsVars,
                   websocket, isConnected, isConnecting, reconnectCount, subscriptions,
                   pendingSubscriptions, trackedWallets, trackerIsConnected, heartbeatTimer,
                   keyRotationTimer, reconnectTimers, reconnectTimer, waiters, microtasks>>

NextLifecycle ==
    \/ Start
    \/ Stop
    \/ StopClear
    \/ \E s \in DOMAIN sockets : HandleOpenForwarded(s)
    \/ \E s \in DOMAIN sockets : HandleError(s)
    \/ ConnectFailed
    \/ \E s \in DOMAIN sockets : \E code \in {1000, 1006} : HandleCloseForwarded(s, code)
    \/ ReconnectTimerFires
    \/ ConnectTimeoutFires
    \/ \E s \in DOMAIN sockets : \E code \in {-32600, -32601, -32000} : HandleRpcError(s, code)
    \/ KeyRotationFires
    \/ ReconnectSleepElapsed

SpecLifecycle == InitSubscribe /\ [][NextLifecycle]_vars

\* the events the backend raises in a handleClose(event) step: 'disconnected'
\* with the close event, then 'maxReconnectAttemptsReached' when
\* scheduleReconnect finds the attempts used up
RaisedAtClose(code) ==
    <<Event("disconnected", Given(code))>>
       \o IF code # 1000 /\ reconnectCount >= reconnectAttempts
          THEN <<Event("maxReconnectAttemptsReached", AbsentNumber)>>
          ELSE << >>

\* C30: every 'connected', 'disconnected' and 'maxReconnectAttemptsReached'
\* event the backend raises is forwarded to the consumer as the corresponding
\* event with its payload unchanged, and the tracker does nothing else to its
\* wallets or its history
C30_LifecycleForwarded ==
    [][\A s \in DOMAIN sockets :
          /\ HandleOpen(s) =>
                /\ emitted' = Append(emitted, Event("connected", AbsentNumber))
                /\ UNCHANGED <<trackedWallets, histVars>>
          /\ \A code \in {1000, 1006} :
                HandleClose(s, code) =>
                   /\ emitted' = emitted \o RaisedAtClose(code)
                   /\ UNCHANGED <<trackedWallets, histVars>>]_vars

---------------------------------------------------------------------------
(* addWallet and removeWallet with what they return and send *)

\* addWallet(a), recording in lastCall what it resolved to and whether
\* subscribeToWallet was reached and sent the subscription message
AddWalletReturned(a) ==
    /\ AddWallet(a)
    /\ lastCall' = [lastCall EXCEPT ![a] =
                       IF ~ValidateWalletAddress(a) THEN "false"
                       ELSE IF a \in trackedWallets THEN "true"
                       ELSE IF SubscribeToWallet(a, isConnected).sent
                       THEN "true, subscribed, sent" ELSE "true, subscribed"]
    /\ UNCHANGED <<opened, previous>>

\* removeWallet(a), recording in lastCall what it resolved to and whether
\* unsubscribeFromWallet was reached; unsubscribeFromWallet edits the two sets
\* and sends no message
RemoveWalletReturned(a) ==
    /\ RemoveWallet(a)
    /\ lastCall' = [lastCall EXCEPT ![a] =
                       IF a \in trackedWallets THEN "removed, unsubscribed"
                       ELSE "not tracked"]
    /\ UNCHANGED <<opened, previous>>

NextWallets ==
    \/ \E a \in Addresses : AddWalletReturned(a)
    \/ \E a \in Addresses : RemoveWalletReturned(a)
    \/ Start
    \/ Stop
    \/ StopClear
    \/ (\E s \in DOMAIN sockets : HandleOpen(s)) /\ UNCHANGED <<subVars, emitted>>
    \/ ResubscribeNext
    \/ (\E s \in DOMAIN sockets : HandleClose(s, 1000)) /\ UNCHANGED emitted

SpecWallets == InitSubscribe /\ [][NextWallets]_vars

\* C31: addWallet(id) for an id that is already tracked returns true and
\* changes nothing: tracked set, active and pending sets unchanged, no
\* subscription message sent; addWallet with an invalid address returns false
\* and leaves the tracked set and the subscription sets unchanged
C31_AddWalletIdempotent ==
    [][\A a \in Addresses :
          AddWalletReturned(a) =>
             /\ a \in trackedWallets =>
                   /\ lastCall'[a] = "true"
                   /\ UNCHANGED <<trackedWallets, subscriptions, pendingSubscriptions,
                                  sockets, microtasks>>
             /\ ~ValidateWalletAddress(a) =>
                   /\ lastCall'[a] = "false"
                   /\ UNCHANGED <<trackedWallets, subscriptions, pendingSubscriptions,
                                  sockets, microtasks>>]_vars

\* a tracked wallet was added again, while the connection was closed after it
\* had been subscribed, and an invalid address was refused
C31_Witness ==
    /\ lastCall["walletA"] = "true"
    /\ "walletA" \in trackedWallets
    /\ ~isConnected
    /\ lastCall["short"] = "false"
    /\ "short" \notin trackedWallets

\* C32: on an error message with code -32600 or -32601 the failure count of the
\* key in use grows by one and a rotation is triggered (the socket is closed
\* and reconnect() is under way); on any other error code the connection
\* state, the subscription sets and the failure counts are unchanged
C32_RpcErrorRotates ==
    [][\A s \in DOMAIN sockets, code \in {-32600, -32601, -32000} :
          HandleRpcError(s, code) =>
             IF code = -32000
             THEN UNCHANGED <<connVars, keyVars>>
             ELSE /\ apiKeyFailures' = CountFailure(currentApiKeyIndex)
                  /\ reconnectSleeps' = reconnectSleeps + 1
                  /\ sockets'[s].readyState = "CLOSING"]_vars

\* C33: every getTokenData call that awaits a fetch, also one that joined it,
\* resolves to null and never rejects when the fetch exhausts its retries
C33_JoinersGetNull ==
    [][\A f \in FetchIds :
          FetchFails(f) =>
             \A c \in CallIds :
                calls[c].state = "waiting" /\ calls[c].fetch = f =>
                   calls'[c].state = "returned" /\ calls'[c].result = Null]_vars

---------------------------------------------------------------------------
(* TokenDataService.getTokenPrice: the price tier in front of getTokenData *)

\* getTokenPrice(tokenMint) up to its return or its await: getCachedPrice
\* returns the entry of the price tier unless it is older than 60 s (then it
\* deletes it); without one the price is that of getTokenData's result
GetTokenPrice(tokenMint) ==
    IF priceCache[tokenMint].has /\ ~Expired(priceCache[tokenMint], PriceTimeout)
    THEN UNCHANGED cacheVars
    ELSE /\ GetTokenData(tokenMint)
         /\ priceCache' = [priceCache EXCEPT ![tokenMint] = NoEntry]

NextPrice ==
    \/ (\E m \in Mints : GetTokenPrice(m))
       /\ UNCHANGED <<now, keyVars, histVars, connVars, optVars, batchVars, trackVars, filterVars, subVars, obsVars>>
    \/ (\E f \in FetchIds : FetchSucceeded(f))
       /\ UNCHANGED <<now, keyVars, histVars, connVars, optVars, batchVars, trackVars, filterVars, subVars, obsVars>>
    \/ (\E f \in FetchIds : FetchAttemptFailed(f))
       /\ UNCHANGED <<now, keyVars, histVars, connVars, optVars, batchVars, trackVars, filterVars, subVars, obsVars>>
    \/ (\E f \in FetchIds : RetryDelayElapsed(f))
       /\ UNCHANGED <<now, keyVars, histVars, connVars, optVars, batchVars, trackVars, filterVars, subVars, obsVars>>
    \/ CleanupExpiredCache
       /\ UNCHANGED <<now, keyVars, histVars, connVars, optVars, batchVars, trackVars, filterVars, subVars, obsVars>>
    \/ CacheTick

SpecPrice == InitTokenData /\ [][NextPrice]_vars

\* C34: getTokenPrice never returns a price obtained from an upstream fetch
\* completed more than 60 s earlier; without an unexpired entry of the price
\* tier the price is fetched again, not served from an older entry of the
\* main tier
C34_PriceFresh ==
    [][\A m \in Mints, c \in CallIds :
          (GetTokenPrice(m) /\ CallMade(c, m) /\ calls'[c].state = "returned") =>
             now - calls'[c].result.lastUpdated <= PriceTimeout]_vars

---------------------------------------------------------------------------
(* Fetches in flight *)

\* the fetchTokenData runs for mint that have not settled: those started by
\* getTokenData and those started by fetchBatchTokenData
FetchesInFlight(mint) ==
    Cardinality({f \in FetchIds : fetches[f].mint = mint /\ fetches[f].phase \in {"fetching", "delay"}})
       + Cardinality({i \in DOMAIN batch.runs :
                         batch.runs[i].mint = mint /\ batch.runs[i].phase = "fetching"})

\* C35: at any time at most one upstream fetch is in flight per mint, whatever
\* getTokenData and getBatchTokenData calls are outstanding
C35_OneFetchPerMint == \A m \in Mints : FetchesInFlight(m) <= 1

---------------------------------------------------------------------------
(* Key rotation: the rotation interval, reconnect() and the close event of *)
(* the socket it closed, with handshakes that succeed                      *)

NextRotation ==
    \/ (\E a \in Addresses : AddWallet(a)) /\ UNCHANGED subVars
    \/ Start
    \/ (\E s \in DOMAIN sockets : HandleOpen(s)) /\ UNCHANGED <<subVars, emitted>>
    \/ ResubscribeNext
    \/ KeyRotationFires
    \/ ReconnectSleepElapsed
    \/ (\E s \in DOMAIN sockets : sockets[s].readyState = "CLOSING" /\ HandleClose(s, 1000))
       /\ UNCHANGED emitted

\* every event that is due is delivered: open events, close events, the
\* continuations of resubscribeAll and the end of reconnect()'s wait; the
\* rotation interval and the owner's calls are under no obligation
SpecRotationLive ==
    /\ InitSubscribe
    /\ [][NextRotation]_vars
    /\ WF_vars(\E s \in DOMAIN sockets : HandleOpen(s) /\ UNCHANGED <<subVars, emitted>>)
    /\ WF_vars(ResubscribeNext)
    /\ WF_vars(ReconnectSleepElapsed)
    /\ WF_vars(\E s \in DOMAIN sockets :
                  sockets[s].readyState = "CLOSING" /\ HandleClose(s, 1000) /\ UNCHANGED emitted)

\* rotateApiKey() closed the open socket and reconnect() waits; a socket
\* object is left for the new connection
RotationUnderWay ==
    /\ reconnectSleeps > 0
    /\ \E s \in DOMAIN sockets : sockets[s].readyState = "none"

\* C36: whenever the rotation fires while the connection is open, the socket
\* is closed and the connection is eventually open again, for every delay of
\* the close event of the closed socket
C36_RotationReopens == RotationUnderWay ~> Open

---------------------------------------------------------------------------
(* Retries, failure counts and events of replaced sockets *)

\* C37: at any time at most one reconnect timer is armed, and reconnectCount
\* never exceeds reconnectAttempts: a failed connection attempt, with its error
\* event and its close event, arms exactly one timer (start() called once,
\* every other attempt is a retry)
C37_OneRetryPending ==
    Cardinality({s \in DOMAIN sockets : sockets[s].by = "start"}) <= 1 =>
       /\ Len(reconnectTimers) <= 1
       /\ reconnectCount <= reconnectAttempts

\* the connection attempts made so far: each one made a socket
Attempts == {s \in DOMAIN sockets : sockets[s].readyState # "none"}

\* C38: each failed connection attempt adds exactly one to the failure count
\* of the key it used: no key has more failures than connection attempts
\* were made
C38_OneFailurePerAttempt ==
    \A i \in DOMAIN apiKeyFailures : apiKeyFailures[i] <= Cardinality(Attempts)

\* C39: the close event or the error event of a socket that disconnect() or
\* reconnect() closed and that is no longer the current one leaves
\* isConnected, isConnecting and the heartbeat timer as they are
C39_OldSocketEventsIgnored ==
    [][\A s \in DOMAIN sockets :
          (/\ s # websocket
           /\ sockets[s].readyState \in {"CLOSING", "ABORTING"}
           /\ \/ HandleError(s)
              \/ \E code \in {1000, 1006} : HandleClose(s, code))
          => UNCHANGED <<isConnected, isConnecting, heartbeatTimer>>]_vars

\* C40: removeWallet(id) for a tracked id on an open connection sends an
\* unsubscription request on the socket, so that the server stops delivering
\* transactions for it; removeWallet for an untracked id changes nothing and
\* sends nothing
C40_RemoveWalletUnsubscribes ==
    [][\A a \in Addresses :
          RemoveWalletReturned(a) =>
             /\ (a \in trackedWallets /\ Open) =>
                   lastCall'[a] = "removed, unsubscribed, sent"
             /\ a \notin trackedWallets =>
                   /\ lastCall'[a] = "not tracked"
                   /\ UNCHANGED <<trackedWallets, subscriptions, pendingSubscriptions,
                                  sockets, microtasks>>]_vars

=============================================================================
